---- MODULE Spec2Model ----
(***************************************************************************)
(* Work-item tracking service (HEUNETS backend).                           *)
(*                                                                         *)
(* The model follows WorkItemService (service layer), workItemRepository   *)
(* (persistence adapter) and workItemSchema (document schema).  The store  *)
(* is the WorkItem collection; each action is one service operation run    *)
(* to completion, including the repository calls it makes.  The outcome of *)
(* the last operation (its request, the error message or returned items,   *)
(* and the collection as it was when the operation began) is kept in       *)
(* `result` so that properties can speak about what a caller observes.     *)
(*                                                                         *)
(* Strings whose characters matter (title, description, e-mail addresses)  *)
(* are sequences of one-character strings.  Dates are integers on the      *)
(* model clock `now`.  The createdAt / updatedAt stamps written by the     *)
(* persistence layer are not part of the model.                            *)
(***************************************************************************)
EXTENDS Integers, Sequences, FiniteSets, TLC

VARIABLES store, nextId, now, result, calls, mail

vars == <<store, nextId, now, result, calls, mail>>

(***************************************************************************)
(* Bounds of the model.                                                    *)
(***************************************************************************)
MaxItems == 2
MaxTime == 1
\* the largest store the rates of getMyWorkItemStats are computed over
MaxFixture == 40
\* the largest store getAllWorkItems pages through
MaxListed == 12
\* the latest time at which the overdue items are listed
MaxLateness == 3
\* the largest `retries` sendEmail is called with
MaxRetries == 4

Ids == 1..MaxItems
Times == 0..MaxTime

(***************************************************************************)
(* Values.                                                                 *)
(***************************************************************************)
\* a Date field that is null or not set
NullDate == -1
\* the time value of a Date built from an unparsable string (NaN)
InvalidDate == -2

validStatuses == {"pending", "in_progress", "completed", "cancelled"}
validPriorities == {"low", "medium", "high", "urgent"}

\* no identity referenced (assignedTo not set)
NoRef == "none"
NoModel == "none"

\* the Admin collection: identity reference -> stored (lower-case) e-mail
AdminEmails ==
    [a1 |-> <<"j", "@", "x", ".", "i", "o">>,
     a2 |-> <<"k", "@", "x", ".", "i", "o">>,
     a3 |-> <<"l", "@", "x", ".", "i", "o">>]
Admins == DOMAIN AdminEmails

\* the Admins whose isActive is true; they are the ones that sign in
ActiveAdmins == {"a1", "a2"}

\* paths declared by the document schema; a write to any other path is
\* dropped by the persistence layer (strict schema)
SchemaPaths ==
    {"title", "description", "status", "priority", "createdBy", "creatorModel",
     "assignedTo", "assigneeModel", "dueDate", "completedAt", "isActive"}


\* schema limits on the trimmed title and description
TitleMinLength == 3
TitleMaxLength == 100
DescriptionMinLength == 10
DescriptionMaxLength == 500

(***************************************************************************)
(* Strings: String.prototype.trim, toLowerCase and the e-mail pattern.     *)
(***************************************************************************)
IsSpace(c) == c = " "

RECURSIVE trimStart(_)
trimStart(s) ==
    IF s # <<>> /\ IsSpace(Head(s)) THEN trimStart(Tail(s)) ELSE s

RECURSIVE trimEnd(_)
trimEnd(s) ==
    IF s # <<>> /\ IsSpace(s[Len(s)]) THEN trimEnd(SubSeq(s, 1, Len(s) - 1)) ELSE s

trim(s) == trimEnd(trimStart(s))

LowerChar(c) ==
    CASE c = "J" -> "j"
      [] c = "K" -> "k"
      [] c = "X" -> "x"
      [] OTHER -> c

toLowerCase(s) == [i \in 1..Len(s) |-> LowerChar(s[i])]

\* [^\s@]
PlainChar(c) == ~IsSpace(c) /\ c # "@"

\* /^[^\s@]+@[^\s@]+\.[^\s@]+$/ : one run of plain characters, an "@", and
\* a run of plain characters that has a "." strictly inside it
emailRegexTest(s) ==
    \E i \in 1..Len(s) :
        /\ s[i] = "@"
        /\ i > 1
        /\ \A k \in (1..Len(s)) \ {i} : PlainChar(s[k])
        /\ \E d \in (i + 2)..(Len(s) - 1) : s[d] = "."

\* Admin.findOne({ email }): the identity with that e-mail, or NoRef
AdminFindOneByEmail(email) ==
    IF \E a \in Admins : AdminEmails[a] = email
    THEN CHOOSE a \in Admins : AdminEmails[a] = email
    ELSE NoRef

\* Admin.findOne({ email, isActive: true })
AdminFindOneActiveByEmail(email) ==
    IF AdminFindOneByEmail(email) \in ActiveAdmins THEN AdminFindOneByEmail(email) ELSE NoRef

(***************************************************************************)
(* Request bodies.  A body is a record with every field the model knows,   *)
(* and `keys` says which of them the caller actually sent (the others are  *)
(* undefined).  assignedTo is a JavaScript value: its type and, for a      *)
(* string, its characters.                                                 *)
(***************************************************************************)
Undefined == [t |-> "undefined", s |-> <<>>]
Str(s) == [t |-> "string", s |-> s]
NonString == [t |-> "number", s |-> <<>>]

NoInput ==
    [keys |-> {}, title |-> <<>>, description |-> <<>>, status |-> "",
     priority |-> "", assignedTo |-> Undefined, tags |-> {},
     dueDate |-> NullDate, isActive |-> TRUE, completedAt |-> NullDate,
     createdBy |-> NoRef, creatorModel |-> NoModel]

\* the id list of a bulk request: `given` is false when the caller sent none
NoIds == [given |-> FALSE, ids |-> {}]
IdList(S) == [given |-> TRUE, ids |-> S]

\* the filters and options of a read as its caller sends them; an empty
\* value is a filter that was not sent
NoQuery ==
    [includeDeleted |-> FALSE, status |-> {}, priority |-> {},
     assignedTo |-> <<>>, createdBy |-> <<>>, userId |-> NoRef, one |-> "",
     page |-> 0, limit |-> 0]

Has(d, k) == k \in d.keys

\* JavaScript truthiness of the field k of a body
Truthy(d, k) ==
    /\ Has(d, k)
    /\ CASE k \in {"title", "description"} -> d[k] # <<>>
         [] k \in {"status", "priority"} -> d[k] # ""
         [] k = "assignedTo" -> d[k].t = "number" \/ (d[k].t = "string" /\ d[k].s # <<>>)
         [] k = "tags" -> TRUE
         [] k = "dueDate" -> TRUE
         [] OTHER -> TRUE

(***************************************************************************)
(* Documents of the WorkItem collection and the schema's write rules.      *)
(***************************************************************************)
NoTags == {}

\* a $set / constructor argument: `keys` are the paths it carries
NoUpdates ==
    [keys |-> {}, title |-> <<>>, description |-> <<>>, status |-> "",
     priority |-> "", createdBy |-> NoRef, creatorModel |-> NoModel,
     assignedTo |-> NoRef, assigneeModel |-> NoModel, tags |-> NoTags,
     dueDate |-> NullDate, completedAt |-> NullDate, isActive |-> TRUE]

\* a document before any path is set: the schema defaults
workItemSchema ==
    [title |-> <<>>, description |-> <<>>, status |-> "pending",
     priority |-> "medium", createdBy |-> NoRef, creatorModel |-> NoModel,
     assignedTo |-> NoRef, assigneeModel |-> NoModel, tags |-> NoTags,
     dueDate |-> NullDate, completedAt |-> NullDate, isActive |-> TRUE]

DocFields == DOMAIN workItemSchema

\* the value a path is cast to when written: `trim: true` on the strings
CastPath(f, v) ==
    IF f \in {"title", "description"} THEN trim(v) ELSE v

\* the written paths that are declared by the schema
SetPaths(u) == u.keys \cap SchemaPaths

\* $set of u on doc
ApplySet(doc, u) ==
    [f \in DocFields |-> IF f \in SetPaths(u) THEN CastPath(f, u[f]) ELSE doc[f]]

\* a Date path cannot be cast from an unparsable value
CastFails(u) == "dueDate" \in SetPaths(u) /\ u.dueDate = InvalidDate

\* the schema validators without the maxlength ones
PathValidNoMaxLength(f, v) ==
    CASE f = "title" -> Len(v) >= TitleMinLength
      [] f = "description" -> Len(v) >= DescriptionMinLength
      [] f = "status" -> v \in validStatuses
      [] f = "priority" -> v \in validPriorities
      [] f = "createdBy" -> v # NoRef
      [] f = "creatorModel" -> v \in {"Admin", "User"}
      [] OTHER -> TRUE

\* the schema validators of one written path
PathValid(f, v) ==
    CASE f = "title" -> Len(v) >= TitleMinLength /\ Len(v) <= TitleMaxLength
      [] f = "description" -> Len(v) >= DescriptionMinLength /\ Len(v) <= DescriptionMaxLength
      [] f = "status" -> v \in validStatuses
      [] f = "priority" -> v \in validPriorities
      [] f = "createdBy" -> v # NoRef
      [] f = "creatorModel" -> v \in {"Admin", "User"}
      [] OTHER -> TRUE

\* save(): every path of the new document is validated
SaveValid(doc) == \A f \in DocFields : PathValid(f, doc[f])

\* runValidators on an update: the written paths are validated
UpdateValid(u) == \A f \in SetPaths(u) : PathValid(f, CastPath(f, u[f]))

CastErrorMsg == "Cast to date failed"
ValidationFailedMsg == "Validation failed"

(***************************************************************************)
(* The outcome of an operation as its caller sees it.                      *)
(***************************************************************************)
NoId == 0

NoStats ==
    [total |-> 0, pending |-> 0, inProgress |-> 0, completed |-> 0, cancelled |-> 0,
     overdue |-> 0, assigned |-> 0, created |-> 0, completionRate |-> 0, overdueRate |-> 0]

NoPagination == [total |-> 0, page |-> 0, pages |-> 0, limit |-> 0]

NoResult ==
    [op |-> "none", id |-> NoId, err |-> "", detail |-> <<>>, items |-> <<>>, count |-> 0,
     req |-> NoInput, ids |-> NoIds, opts |-> NoQuery, stats |-> NoStats,
     users |-> <<>>, pagination |-> NoPagination,
     before |-> <<>>, nextIdBefore |-> 1, at |-> 0, threw |-> FALSE, rejected |-> FALSE]

\* a request that is between two of its database calls: where it is, what it
\* was asked, the status it has read and the counts it has taken
NoCall ==
    [pc |-> "idle", id |-> NoId, body |-> NoInput, status |-> "", counts |-> NoStats,
     taken |-> {}, at |-> 0]

\* the requests that can be in flight at the same time
Callers == {"r1", "r2"}

NoCalls == [c \in Callers |-> NoCall]

\* a call of sendEmail: where it is, its `retries` and `attempt`, whether its
\* parameters are given and the sender is configured, the message of
\* lastError, and what it has done so far
NoMail ==
    [pc |-> "idle", retries |-> 0, attempt |-> 0, given |-> TRUE, configured |-> TRUE,
     lastError |-> "", thrown |-> <<>>, attempts |-> 0, waits |-> 0, delay |-> 0]

\* every outcome carries the collection and the next id as they were when the
\* operation began, and the time of the operation
Began == [NoResult EXCEPT !.before = store, !.nextIdBefore = nextId, !.at = now]

Ok(op, id, items, count) ==
    [Began EXCEPT !.op = op, !.id = id, !.items = items, !.count = count]

\* a thrown Error; `detail` is the value interpolated into the message
FailWith(op, id, msg, detail) ==
    [Began EXCEPT !.op = op, !.id = id, !.err = msg, !.detail = detail, !.threw = TRUE]

Fail(op, id, msg) == FailWith(op, id, msg, <<>>)

\* the outcome r together with the request body and id list it answers
For(r, body, ids) == [r EXCEPT !.req = body, !.ids = ids]

\* the outcome of a create, with the identity that asked for it
ForCreate(u, r, body, ids) ==
    [For(r, body, ids) EXCEPT !.opts = [NoQuery EXCEPT !.userId = u]]

\* a populated reference as _formatWorkItem shows it: the e-mail of the
\* identity, or null when the reference is not set or names nobody
NullUser == [found |-> FALSE, email |-> <<>>]

populate(ref) ==
    IF ref \in Admins THEN [found |-> TRUE, email |-> AdminEmails[ref]] ELSE NullUser

\* _formatWorkItem of a populated document (its id stays visible as `id`)
formatWorkItem(id, doc) ==
    [id |-> id,
     doc |-> [doc EXCEPT !.createdBy = populate(@), !.assignedTo = populate(@)]]

\* WorkItem.findById
Exists(id) == id \in DOMAIN store

(***************************************************************************)
(* createWorkItem                                                          *)
(***************************************************************************)
\* assignedToError looking the address up as it was typed
assignedToErrorAsTyped(v) ==
    IF v.t # "string" THEN "assignedTo must be a string (email address)"
    ELSE IF ~emailRegexTest(v.s) THEN "assignedTo must be a valid email address"
    ELSE IF AdminFindOneByEmail(v.s) = NoRef THEN "User with email does not exist"
    ELSE ""

\* the checks made on a truthy assignedTo; "" when it passes
assignedToError(v) ==
    IF v.t # "string" THEN "assignedTo must be a string (email address)"
    ELSE IF ~emailRegexTest(v.s) THEN "assignedTo must be a valid email address"
    ELSE IF AdminFindOneByEmail(toLowerCase(v.s)) = NoRef THEN "User with email does not exist"
    ELSE ""

\* createError refusing a due date that equals the current time
createErrorDueNow(d) ==
    IF ~Truthy(d, "title") \/ Len(trim(d.title)) < 3
    THEN "Title must be at least 3 characters long"
    ELSE IF ~Truthy(d, "description") \/ Len(trim(d.description)) < 10
    THEN "Description must be at least 10 characters long"
    ELSE IF Truthy(d, "priority") /\ d.priority \notin validPriorities
    THEN "Invalid priority. Must be one of: low, medium, high, urgent"
    ELSE IF Truthy(d, "status") /\ d.status \notin validStatuses
    THEN "Invalid status. Must be one of: pending, in_progress, completed, cancelled"
    ELSE IF Truthy(d, "assignedTo") /\ assignedToError(d.assignedTo) # ""
    THEN assignedToError(d.assignedTo)
    ELSE IF Truthy(d, "dueDate") /\ d.dueDate = InvalidDate
    THEN "Invalid due date format"
    ELSE IF Truthy(d, "dueDate") /\ d.dueDate <= now
    THEN "Due date cannot be in the past"
    ELSE ""

\* the first validation of createWorkItem that fails; "" when all pass
createError(d) ==
    IF ~Truthy(d, "title") \/ Len(trim(d.title)) < 3
    THEN "Title must be at least 3 characters long"
    ELSE IF ~Truthy(d, "description") \/ Len(trim(d.description)) < 10
    THEN "Description must be at least 10 characters long"
    ELSE IF Truthy(d, "priority") /\ d.priority \notin validPriorities
    THEN "Invalid priority. Must be one of: low, medium, high, urgent"
    ELSE IF Truthy(d, "status") /\ d.status \notin validStatuses
    THEN "Invalid status. Must be one of: pending, in_progress, completed, cancelled"
    ELSE IF Truthy(d, "assignedTo") /\ assignedToError(d.assignedTo) # ""
    THEN assignedToError(d.assignedTo)
    ELSE IF Truthy(d, "dueDate") /\ d.dueDate = InvalidDate
    THEN "Invalid due date format"
    ELSE IF Truthy(d, "dueDate") /\ d.dueDate < now
    THEN "Due date cannot be in the past"
    ELSE ""

\* newWorkItemData making the creator the assignee when none is named
newWorkItemDataSelfAssigned(d, createdById) ==
    [NoUpdates EXCEPT
        !.keys = {"title", "description", "createdBy", "creatorModel", "status",
                  "priority", "assignedTo", "assigneeModel"}
                 \cup (IF Truthy(d, "tags") THEN {"tags"} ELSE {})
                 \cup (IF Truthy(d, "dueDate") THEN {"dueDate"} ELSE {}),
        !.title = trim(d.title),
        !.description = trim(d.description),
        !.createdBy = createdById,
        !.creatorModel = "Admin",
        !.status = IF Truthy(d, "status") THEN d.status ELSE "pending",
        !.priority = IF Truthy(d, "priority") THEN d.priority ELSE "medium",
        !.assignedTo = IF Truthy(d, "assignedTo")
                       THEN AdminFindOneByEmail(toLowerCase(d.assignedTo.s)) ELSE createdById,
        !.assigneeModel = "Admin",
        !.tags = IF Truthy(d, "tags") THEN d.tags ELSE NoTags,
        !.dueDate = IF Truthy(d, "dueDate") THEN d.dueDate ELSE NullDate]

\* the record handed to the repository once the checks have passed
newWorkItemData(d, createdById) ==
    [NoUpdates EXCEPT
        !.keys = {"title", "description", "createdBy", "creatorModel", "status", "priority"}
                 \cup (IF Truthy(d, "assignedTo") THEN {"assignedTo", "assigneeModel"} ELSE {})
                 \cup (IF Truthy(d, "tags") THEN {"tags"} ELSE {})
                 \cup (IF Truthy(d, "dueDate") THEN {"dueDate"} ELSE {}),
        !.title = trim(d.title),
        !.description = trim(d.description),
        !.createdBy = createdById,
        !.creatorModel = "Admin",
        !.status = IF Truthy(d, "status") THEN d.status ELSE "pending",
        !.priority = IF Truthy(d, "priority") THEN d.priority ELSE "medium",
        !.assignedTo = IF Truthy(d, "assignedTo")
                       THEN AdminFindOneByEmail(toLowerCase(d.assignedTo.s)) ELSE NoRef,
        !.assigneeModel = IF Truthy(d, "assignedTo") THEN "Admin" ELSE NoModel,
        !.tags = IF Truthy(d, "tags") THEN d.tags ELSE NoTags,
        !.dueDate = IF Truthy(d, "dueDate") THEN d.dueDate ELSE NullDate]

\* createWorkItem saving the document before the due date is checked
createWorkItemSaveFirst(d, createdById) ==
    LET e == createError(d)
        doc == ApplySet(workItemSchema, newWorkItemData(d, createdById))
    IN  /\ IF e \in {"Invalid due date format", "Due date cannot be in the past"}
           THEN /\ nextId <= MaxItems
                /\ store' = store @@ (nextId :> doc)
                /\ nextId' = nextId + 1
                /\ result' = ForCreate(createdById, Fail("create", NoId, e), d, NoIds)
           ELSE IF e # "" \/ ~SaveValid(doc)
           THEN /\ result' = ForCreate(createdById, Fail("create", NoId, IF e # "" THEN e ELSE ValidationFailedMsg),
                                 d, NoIds)
                /\ UNCHANGED <<store, nextId>>
           ELSE /\ nextId <= MaxItems
                /\ store' = store @@ (nextId :> doc)
                /\ nextId' = nextId + 1
                /\ result' = ForCreate(createdById, Ok("create", nextId, <<formatWorkItem(nextId, doc)>>, 0), d, NoIds)
        /\ UNCHANGED <<now, calls, mail>>

createWorkItem(d, createdById) ==
    LET e == createError(d)
        doc == ApplySet(workItemSchema, newWorkItemData(d, createdById))
    IN  /\ IF e # ""
           THEN /\ result' = ForCreate(createdById, FailWith("create", NoId, e,
                                      IF e = "User with email does not exist"
                                      THEN d.assignedTo.s ELSE <<>>), d, NoIds)
                /\ UNCHANGED <<store, nextId>>
           ELSE IF ~SaveValid(doc)
           THEN /\ result' = ForCreate(createdById, Fail("create", NoId, ValidationFailedMsg), d, NoIds)
                /\ UNCHANGED <<store, nextId>>
           ELSE /\ nextId <= MaxItems
                /\ store' = store @@ (nextId :> doc)
                /\ nextId' = nextId + 1
                /\ result' = ForCreate(createdById, Ok("create", nextId, <<formatWorkItem(nextId, doc)>>, 0), d, NoIds)
        /\ UNCHANGED <<now, calls, mail>>

(***************************************************************************)
(* getWorkItemById                                                         *)
(***************************************************************************)
\* findWorkItemById with an isActive filter added to the fetch
findWorkItemByIdActiveOnly(id) == Exists(id) /\ store[id].isActive

\* repository findWorkItemById: WorkItem.findById, whatever isActive is
findWorkItemById(id) == Exists(id)

getWorkItemById(id) ==
    /\ result' = IF ~findWorkItemById(id)
                 THEN Fail("getById", id, "Work item not found")
                 ELSE Ok("getById", id, <<formatWorkItem(id, store[id])>>, 0)
    /\ UNCHANGED <<store, nextId, now, calls, mail>>

(***************************************************************************)
(* updateWorkItem                                                          *)
(***************************************************************************)
\* allowedUpdates letting every key of the body through
allowedUpdatesEveryKey ==
    {"title", "description", "status", "priority", "assignedTo", "tags", "dueDate",
     "isActive", "completedAt", "createdBy", "creatorModel"}

allowedUpdates ==
    {"title", "description", "status", "priority", "assignedTo", "tags", "dueDate"}

\* a reference that cannot be cast to an identity (a falsy assignedTo)
BadRef == "bad"

\* the body reduced to its keys that are in the allow-list and not undefined
pickUpdates(p, allowed) ==
    [f \in DOMAIN p |->
        IF f = "keys" THEN p.keys \cap allowed
        ELSE IF f \in p.keys \cap allowed THEN p[f] ELSE NoInput[f]]

\* updateError checking status and priority before assignedTo
updateErrorStatusFirst(q) ==
    IF Truthy(q, "status") /\ q.status \notin validStatuses
    THEN "Invalid status"
    ELSE IF Truthy(q, "priority") /\ q.priority \notin validPriorities
    THEN "Invalid priority"
    ELSE IF Truthy(q, "assignedTo") /\ assignedToError(q.assignedTo) # ""
    THEN assignedToError(q.assignedTo)
    ELSE ""

\* the first check of updateWorkItem that fails on the picked updates q;
\* "" when all pass
updateError(q) ==
    IF Truthy(q, "assignedTo") /\ assignedToError(q.assignedTo) # ""
    THEN assignedToError(q.assignedTo)
    ELSE IF Truthy(q, "status") /\ q.status \notin validStatuses
    THEN "Invalid status"
    ELSE IF Truthy(q, "priority") /\ q.priority \notin validPriorities
    THEN "Invalid priority"
    ELSE ""

\* the picked updates as the $set argument: a truthy assignedTo is replaced
\* by the identity it resolves to and tagged with its model
resolveAssignee(q) ==
    [NoUpdates EXCEPT
        !.keys = q.keys \cup (IF Truthy(q, "assignedTo") THEN {"assigneeModel"} ELSE {}),
        !.title = q.title,
        !.description = q.description,
        !.status = q.status,
        !.priority = q.priority,
        !.assignedTo = IF ~Has(q, "assignedTo") THEN NoRef
                       ELSE IF Truthy(q, "assignedTo") /\ q.assignedTo.t = "string"
                       THEN AdminFindOneByEmail(toLowerCase(q.assignedTo.s))
                       ELSE BadRef,
        !.assigneeModel = IF Truthy(q, "assignedTo") THEN "Admin" ELSE NoModel,
        !.tags = q.tags,
        !.dueDate = q.dueDate,
        !.isActive = q.isActive,
        !.completedAt = q.completedAt,
        !.createdBy = q.createdBy,
        !.creatorModel = q.creatorModel]

\* deriveCompletedAt without the branch that clears the stamp
deriveCompletedAtNeverCleared(u, oldStatus) ==
    IF "status" \in u.keys /\ u.status = "completed" /\ oldStatus # "completed"
    THEN [u EXCEPT !.keys = @ \cup {"completedAt"}, !.completedAt = now]
    ELSE u

\* completedAt as derived from the stored status and the new one
deriveCompletedAt(u, oldStatus) ==
    LET hasStatus == "status" \in u.keys
    IN  IF hasStatus /\ u.status = "completed" /\ oldStatus # "completed"
        THEN [u EXCEPT !.keys = @ \cup {"completedAt"}, !.completedAt = now]
        ELSE IF hasStatus /\ u.status # "" /\ u.status # "completed"
                /\ oldStatus = "completed"
        THEN [u EXCEPT !.keys = @ \cup {"completedAt"}, !.completedAt = NullDate]
        ELSE u

\* repository updateWorkItem: findByIdAndUpdate with runValidators; "" or
\* the error it throws
updateWorkItemRepoError(id, u) ==
    IF CastFails(u) \/ ("assignedTo" \in SetPaths(u) /\ u.assignedTo = BadRef)
    THEN CastErrorMsg
    ELSE IF ~UpdateValid(u) THEN ValidationFailedMsg
    ELSE IF ~Exists(id) THEN "Work item not found"
    ELSE ""

updateWorkItem(id, p) ==
    /\ IF ~findWorkItemById(id)
       THEN /\ result' = For(Fail("update", id, "Work item not found"), p, NoIds)
            /\ UNCHANGED store
       ELSE LET q == pickUpdates(p, allowedUpdates)
                e == updateError(q)
                u == deriveCompletedAt(resolveAssignee(q), store[id].status)
                r == updateWorkItemRepoError(id, u)
            IN  IF e # ""
                THEN /\ result' = For(FailWith("update", id, e,
                                           IF e = "User with email does not exist"
                                           THEN p.assignedTo.s ELSE <<>>), p, NoIds)
                     /\ UNCHANGED store
                ELSE IF r # ""
                THEN /\ result' = For(Fail("update", id, r), p, NoIds)
                     /\ UNCHANGED store
                ELSE /\ store' = [store EXCEPT ![id] = ApplySet(@, u)]
                     /\ result' = For(Ok("update", id, <<formatWorkItem(id, store'[id])>>, 0), p, NoIds)
    /\ UNCHANGED <<nextId, now, calls, mail>>

\* updateWorkItem up to its first await: the request c reads the item
updateWorkItemReads(c, id, p) ==
    /\ calls[c].pc = "idle"
    /\ IF ~findWorkItemById(id)
       THEN /\ result' = For(Fail("update", id, "Work item not found"), p, NoIds)
            /\ calls' = [calls EXCEPT ![c] = [NoCall EXCEPT !.pc = "done", !.id = id,
                                                            !.body = p]]
       ELSE /\ calls' = [calls EXCEPT ![c] = [NoCall EXCEPT !.pc = "read", !.id = id,
                                                            !.body = p,
                                                            !.status = store[id].status]]
            /\ UNCHANGED result
    /\ UNCHANGED <<store, nextId, now, mail>>

\* updateWorkItem from its first await on: the request c derives completedAt
\* from the status it has read and writes its updates
updateWorkItemWrites(c) ==
    LET id == calls[c].id
        p == calls[c].body
        q == pickUpdates(p, allowedUpdates)
        e == updateError(q)
        u == deriveCompletedAt(resolveAssignee(q), calls[c].status)
        r == updateWorkItemRepoError(id, u)
    IN  /\ calls[c].pc = "read"
        /\ IF e # ""
           THEN /\ result' = For(FailWith("update", id, e,
                                      IF e = "User with email does not exist"
                                      THEN p.assignedTo.s ELSE <<>>), p, NoIds)
                /\ UNCHANGED store
           ELSE IF r # ""
           THEN /\ result' = For(Fail("update", id, r), p, NoIds)
                /\ UNCHANGED store
           ELSE /\ store' = [store EXCEPT ![id] = ApplySet(@, u)]
                /\ result' = For(Ok("update", id, <<formatWorkItem(id, store'[id])>>, 0), p, NoIds)
        /\ calls' = [calls EXCEPT ![c].pc = "done"]
        /\ UNCHANGED <<nextId, now, mail>>

(***************************************************************************)
(* deleteWorkItem, permanentlyDeleteWorkItem, restoreWorkItem              *)
(***************************************************************************)
\* a soft delete that also cancels the item
softDeleteCancelling(doc) == [doc EXCEPT !.isActive = FALSE, !.status = "cancelled"]

\* repository deleteWorkItem: $set isActive false
softDelete(doc) == [doc EXCEPT !.isActive = FALSE]

\* a hard delete that only flags the record
hardDeleteWorkItemFlagOnly(id) == [store EXCEPT ![id] = [@ EXCEPT !.isActive = FALSE]]

\* repository hardDeleteWorkItem: findByIdAndDelete
hardDeleteWorkItem(id) == [i \in DOMAIN store \ {id} |-> store[i]]

\* deleteWorkItem looking only for active items
deleteWorkItemActiveOnly(id) ==
    /\ IF ~findWorkItemByIdActiveOnly(id)
       THEN /\ result' = Fail("delete", id, "Work item not found")
            /\ UNCHANGED store
       ELSE /\ store' = [store EXCEPT ![id] = softDelete(@)]
            /\ result' = Ok("delete", id, <<>>, 0)
    /\ UNCHANGED <<nextId, now, calls, mail>>

deleteWorkItem(id) ==
    /\ IF ~findWorkItemById(id)
       THEN /\ result' = Fail("delete", id, "Work item not found")
            /\ UNCHANGED store
       ELSE /\ store' = [store EXCEPT ![id] = softDelete(@)]
            /\ result' = Ok("delete", id, <<>>, 0)
    /\ UNCHANGED <<nextId, now, calls, mail>>

permanentlyDeleteWorkItem(id) ==
    /\ IF ~Exists(id)
       THEN /\ result' = Fail("permanentlyDelete", id, "Work item not found")
            /\ UNCHANGED store
       ELSE /\ store' = hardDeleteWorkItem(id)
            /\ result' = Ok("permanentlyDelete", id, <<>>, 0)
    /\ UNCHANGED <<nextId, now, calls, mail>>

\* restoreWorkItem without the check that the item is deleted
restoreWorkItemUnchecked(id) ==
    /\ IF ~Exists(id)
       THEN /\ result' = Fail("restore", id, "Deleted work item not found")
            /\ UNCHANGED store
       ELSE /\ store' = [store EXCEPT ![id] = [@ EXCEPT !.isActive = TRUE]]
            /\ result' = Ok("restore", id, <<formatWorkItem(id, store'[id])>>, 0)
    /\ UNCHANGED <<nextId, now, calls, mail>>

\* restoreWorkItem reopening the item it restores
restoreWorkItemReopening(id) ==
    /\ IF ~Exists(id)
       THEN /\ result' = Fail("restore", id, "Deleted work item not found")
            /\ UNCHANGED store
       ELSE IF store[id].isActive
       THEN /\ result' = Fail("restore", id, "Work item is not deleted")
            /\ UNCHANGED store
       ELSE /\ store' = [store EXCEPT ![id] = [@ EXCEPT !.isActive = TRUE,
                                                        !.completedAt = NullDate]]
            /\ result' = Ok("restore", id, <<formatWorkItem(id, store'[id])>>, 0)
    /\ UNCHANGED <<nextId, now, calls, mail>>

restoreWorkItem(id) ==
    /\ IF ~Exists(id)
       THEN /\ result' = Fail("restore", id, "Deleted work item not found")
            /\ UNCHANGED store
       ELSE IF store[id].isActive
       THEN /\ result' = Fail("restore", id, "Work item is not deleted")
            /\ UNCHANGED store
       ELSE /\ store' = [store EXCEPT ![id] = [@ EXCEPT !.isActive = TRUE]]
            /\ result' = Ok("restore", id, <<formatWorkItem(id, store'[id])>>, 0)
    /\ UNCHANGED <<nextId, now, calls, mail>>

(***************************************************************************)
(* bulkUpdateWorkItems                                                     *)
(***************************************************************************)
\* bulkAllowedUpdates letting the isActive flag through
bulkAllowedUpdatesWithFlag == {"status", "priority", "assignedTo", "tags", "isActive"}

bulkAllowedUpdates == {"status", "priority", "assignedTo", "tags"}

\* bulkUpdateError with the assignee checked before the id list
bulkUpdateErrorAssigneeFirst(ids, q) ==
    IF Truthy(q, "assignedTo") /\ assignedToError(q.assignedTo) # ""
    THEN assignedToError(q.assignedTo)
    ELSE IF ~ids.given \/ ids.ids = {}
    THEN "No work item IDs provided"
    ELSE IF q.keys = {}
    THEN "No valid update fields provided"
    ELSE ""

\* the first check of bulkUpdateWorkItems that fails; "" when all pass
bulkUpdateError(ids, q) ==
    IF ~ids.given \/ ids.ids = {}
    THEN "No work item IDs provided"
    ELSE IF Truthy(q, "assignedTo") /\ assignedToError(q.assignedTo) # ""
    THEN assignedToError(q.assignedTo)
    ELSE IF q.keys = {}
    THEN "No valid update fields provided"
    ELSE IF Truthy(q, "status") /\ q.status \notin validStatuses
    THEN "Invalid status"
    ELSE IF Truthy(q, "priority") /\ q.priority \notin validPriorities
    THEN "Invalid priority"
    ELSE ""

\* the filter of updateMany: { _id: { $in: ids }, isActive: true }
bulkMatched(ids) == {i \in DOMAIN store \cap ids : store[i].isActive}

bulkUpdateWorkItems(ids, p) ==
    LET q == pickUpdates(p, bulkAllowedUpdates)
        e == bulkUpdateError(ids, q)
        u == resolveAssignee(q)
        matched == bulkMatched(ids.ids)
        changed == {i \in matched : ApplySet(store[i], u) # store[i]}
    IN  /\ IF e # ""
           THEN /\ result' = For(FailWith("bulkUpdate", NoId, e,
                                      IF e = "User with email does not exist"
                                      THEN p.assignedTo.s ELSE <<>>), p, ids)
                /\ UNCHANGED store
           ELSE IF "assignedTo" \in SetPaths(u) /\ u.assignedTo = BadRef
           THEN /\ result' = For(Fail("bulkUpdate", NoId, CastErrorMsg), p, ids)
                /\ UNCHANGED store
           ELSE /\ store' = [i \in DOMAIN store |->
                                IF i \in matched THEN ApplySet(store[i], u) ELSE store[i]]
                \* modifiedCount: the matched documents the write changed; a
                \* matched document whose fields keep their values still counts
                \* when its updatedAt stamp moves
                /\ \E n \in Cardinality(changed)..Cardinality(matched) :
                       result' = For(Ok("bulkUpdate", NoId, <<>>, n), p, ids)
        /\ UNCHANGED <<nextId, now, calls, mail>>

(***************************************************************************)
(* Queries.  A query filter is the object handed to WorkItem.find /        *)
(* countDocuments / distinct: `keys` are the conditions it carries.        *)
(***************************************************************************)
\* the _id of each Admin as a 24-digit hexadecimal string
AdminIds ==
    [a1 |-> [i \in 1..24 |-> "a"],
     a2 |-> [i \in 1..24 |-> "b"],
     a3 |-> [i \in 1..24 |-> "c"]]

\* an ObjectId that no Admin has
StrangerRef == "stranger"

HexChars ==
    {"0", "1", "2", "3", "4", "5", "6", "7", "8", "9",
     "a", "b", "c", "d", "e", "f", "A", "B", "C", "D", "E", "F"}

\* /^[0-9a-fA-F]{24}$/
isValidObjectId(s) == Len(s) = 24 /\ \A i \in 1..24 : s[i] \in HexChars

LowerHex(c) ==
    CASE c = "A" -> "a" [] c = "B" -> "b" [] c = "C" -> "c"
      [] c = "D" -> "d" [] c = "E" -> "e" [] c = "F" -> "f"
      [] OTHER -> c

\* the identity a 24-digit string is cast to when it is used in a filter
castObjectId(s) ==
    LET h == [i \in 1..Len(s) |-> LowerHex(s[i])]
    IN  IF \E a \in Admins : AdminIds[a] = h
        THEN CHOOSE a \in Admins : AdminIds[a] = h
        ELSE StrangerRef

CastObjectIdMsg == "Cast to ObjectId failed"

NoFilters ==
    [keys |-> {}, isActive |-> TRUE, status |-> {}, priority |-> {}, nin |-> {},
     assignedTo |-> NoRef, createdBy |-> NoRef, or |-> NoRef, dueDate |-> 0,
     assigned |-> FALSE]

\* whether a stored document satisfies every condition of the filter f
Matches(doc, f) ==
    /\ "isActive" \in f.keys => doc.isActive = f.isActive
    /\ "status" \in f.keys => doc.status \in f.status
    /\ "priority" \in f.keys => doc.priority \in f.priority
    /\ "nin" \in f.keys => doc.status \notin f.nin
    /\ "assignedTo" \in f.keys => doc.assignedTo = f.assignedTo
    /\ "createdBy" \in f.keys => doc.createdBy = f.createdBy
    /\ "or" \in f.keys => (doc.createdBy = f.or \/ doc.assignedTo = f.or)
    /\ "dueDate" \in f.keys => (doc.dueDate # NullDate /\ doc.dueDate < f.dueDate)
    /\ "assigned" \in f.keys => doc.assignedTo # NoRef

\* WorkItem.find(f): the ids of the matching documents
Find(f) == {i \in DOMAIN store : Matches(store[i], f)}

\* repository countWorkItemsByFilters: WorkItem.countDocuments(f)
countWorkItemsByFilters(f) == Cardinality(Find(f))

\* the orders in which a sort that is descending in key can return the
\* documents S: documents with equal keys come in any order
SortedDesc(S, key) ==
    {s \in [1..Cardinality(S) -> S] :
        /\ \A a, b \in DOMAIN s : a # b => s[a] # s[b]
        /\ \A a, b \in DOMAIN s : a < b => key[s[a]] >= key[s[b]]}

\* sort('-createdAt'): ids are given out in the order of creation, so the
\* latest document is the one with the greatest id
RECURSIVE ByCreatedAtDesc(_)
ByCreatedAtDesc(S) ==
    IF S = {} THEN <<>>
    ELSE LET latest == CHOOSE x \in S : \A y \in S : y <= x
         IN  <<latest>> \o ByCreatedAtDesc(S \ {latest})

Min(a, b) == IF a < b THEN a ELSE b

\* Math.ceil(a / b) for a >= 0 and b > 0
CeilDiv(a, b) == (a + b - 1) \div b

DefaultPage == 1
DefaultLimit == 10
ListLimit == 1000

\* findAllWorkItems with the number of full pages as `pages`
findAllWorkItemsFullPages(f, page, limit) ==
    LET found == ByCreatedAtDesc(Find(f))
        total == Len(found)
        skip == (page - 1) * limit
    IN  [workItems |-> SubSeq(found, skip + 1, Min(skip + limit, total)),
         pagination |-> [total |-> total, page |-> page,
                         pages |-> total \div limit, limit |-> limit]]

\* repository findAllWorkItems: the page of the matching documents and the
\* pagination record
findAllWorkItems(f, page, limit) ==
    LET found == ByCreatedAtDesc(Find(f))
        total == Len(found)
        skip == (page - 1) * limit
    IN  [workItems |-> SubSeq(found, skip + 1, Min(skip + limit, total)),
         pagination |-> [total |-> total, page |-> page,
                         pages |-> CeilDiv(total, limit), limit |-> limit]]

\* repository findWorkItemsByCreator / ByAssignee / ByStatus
findWorkItemsByCreator(creatorId, limit) ==
    findAllWorkItems([NoFilters EXCEPT !.keys = {"createdBy", "isActive"},
                                       !.createdBy = creatorId], DefaultPage, limit)

findWorkItemsByAssignee(assigneeId, limit) ==
    findAllWorkItems([NoFilters EXCEPT !.keys = {"assignedTo", "isActive"},
                                       !.assignedTo = assigneeId], DefaultPage, limit)

findWorkItemsByStatus(status, limit) ==
    findAllWorkItems([NoFilters EXCEPT !.keys = {"status", "isActive"},
                                       !.status = {status}], DefaultPage, limit)

\* workItems.map(item => this._formatWorkItem(item))
formatAll(ids) == [k \in 1..Len(ids) |-> formatWorkItem(ids[k], store[ids[k]])]

\* an outcome together with the query it answers
Asked(r, q) == [r EXCEPT !.opts = q]

(***************************************************************************)
(* getAllWorkItems                                                         *)
(***************************************************************************)
\* the query filters of getAllWorkItems without the isActive condition
listQueryFiltersWithDeleted(q) ==
    [NoFilters EXCEPT
        !.keys = (IF q.status # {} THEN {"status"} ELSE {})
                 \cup (IF q.priority # {} THEN {"priority"} ELSE {})
                 \cup (IF q.assignedTo # <<>> THEN {"assignedTo"} ELSE {})
                 \cup (IF q.createdBy # <<>> THEN {"createdBy"} ELSE {}),
        !.status = q.status,
        !.priority = q.priority,
        !.assignedTo = AdminFindOneByEmail(toLowerCase(q.assignedTo)),
        !.createdBy = castObjectId(q.createdBy)]

\* the query filters getAllWorkItems builds from the caller's filters
\* (the status, priority, assignedTo and createdBy filters; the tags and
\* search filters are not part of the model)
listQueryFilters(q) ==
    [NoFilters EXCEPT
        !.keys = (IF ~q.includeDeleted THEN {"isActive"} ELSE {})
                 \cup (IF q.status # {} THEN {"status"} ELSE {})
                 \cup (IF q.priority # {} THEN {"priority"} ELSE {})
                 \cup (IF q.assignedTo # <<>> THEN {"assignedTo"} ELSE {})
                 \cup (IF q.createdBy # <<>> THEN {"createdBy"} ELSE {}),
        !.isActive = TRUE,
        !.status = q.status,
        !.priority = q.priority,
        !.assignedTo = AdminFindOneByEmail(toLowerCase(q.assignedTo)),
        !.createdBy = castObjectId(q.createdBy)]

getAllWorkItems(q) ==
    LET page == IF q.page # 0 THEN q.page ELSE DefaultPage
        limit == IF q.limit # 0 THEN q.limit ELSE DefaultLimit
        found == findAllWorkItems(listQueryFilters(q), page, limit)
    IN  /\ result' = Asked(
               IF q.assignedTo # <<>> /\ AdminFindOneByEmail(toLowerCase(q.assignedTo)) = NoRef
               THEN FailWith("list", NoId, "User with email does not exist", q.assignedTo)
               ELSE IF q.createdBy # <<>> /\ ~isValidObjectId(q.createdBy)
               THEN Fail("list", NoId, CastObjectIdMsg)
               ELSE [Ok("list", NoId, formatAll(found.workItems), 0)
                        EXCEPT !.pagination = found.pagination], q)
        /\ UNCHANGED <<store, nextId, now, calls, mail>>

(***************************************************************************)
(* getWorkItemsByStatus, getMyAssignedWorkItems, getMyCreatedWorkItems,    *)
(* getOverdueWorkItems                                                     *)
(***************************************************************************)
getWorkItemsByStatus(status) ==
    /\ result' = Asked(
           IF status \notin validStatuses
           THEN Fail("listByStatus", NoId,
                     "Invalid status. Must be one of: pending, in_progress, completed, cancelled")
           ELSE Ok("listByStatus", NoId,
                   formatAll(findWorkItemsByStatus(status, ListLimit).workItems), 0),
           [NoQuery EXCEPT !.one = status])
    /\ UNCHANGED <<store, nextId, now, calls, mail>>

getMyAssignedWorkItems(userId) ==
    /\ result' = Asked(Ok("listAssignedTo", NoId,
                          formatAll(findWorkItemsByAssignee(userId, ListLimit).workItems), 0),
                       [NoQuery EXCEPT !.userId = userId])
    /\ UNCHANGED <<store, nextId, now, calls, mail>>

getMyCreatedWorkItems(userId) ==
    /\ result' = Asked(Ok("listCreatedBy", NoId,
                          formatAll(findWorkItemsByCreator(userId, ListLimit).workItems), 0),
                       [NoQuery EXCEPT !.userId = userId])
    /\ UNCHANGED <<store, nextId, now, calls, mail>>

\* overdueConditions without the condition on the status
overdueConditionsAnyStatus(f) ==
    [f EXCEPT !.keys = @ \cup {"dueDate"}, !.dueDate = now]

\* status: { $nin: ['completed', 'cancelled'] }, dueDate: { $lt: new Date() }
overdueConditions(f) ==
    [f EXCEPT !.keys = @ \cup {"nin", "dueDate"},
              !.nin = {"completed", "cancelled"},
              !.dueDate = now]

\* getOverdueWorkItems returning the items by ascending due date
getOverdueWorkItemsAscending ==
    LET found == Find(overdueConditions([NoFilters EXCEPT !.keys = {"isActive"}]))
    IN  /\ \E s \in SortedDesc(found, [i \in found |-> 0 - store[i].dueDate]) :
               result' = Asked(Ok("listOverdue", NoId, formatAll(s), 0), NoQuery)
        /\ UNCHANGED <<store, nextId, now, calls, mail>>

getOverdueWorkItems ==
    LET found == Find(overdueConditions([NoFilters EXCEPT !.keys = {"isActive"}]))
    IN  /\ \E s \in SortedDesc(found, [i \in found |-> store[i].dueDate]) :
               result' = Asked(Ok("listOverdue", NoId, formatAll(s), 0), NoQuery)
        /\ UNCHANGED <<store, nextId, now, calls, mail>>

(***************************************************************************)
(* getWorkItemStats, getMyWorkItemStats, getAssigneeList                   *)
(***************************************************************************)
withStatus(f, status) == [f EXCEPT !.keys = @ \cup {"status"}, !.status = {status}]

\* the six counts taken under the query filters f
countByStatus(f) ==
    [NoStats EXCEPT
        !.total = countWorkItemsByFilters(f),
        !.pending = countWorkItemsByFilters(withStatus(f, "pending")),
        !.inProgress = countWorkItemsByFilters(withStatus(f, "in_progress")),
        !.completed = countWorkItemsByFilters(withStatus(f, "completed")),
        !.cancelled = countWorkItemsByFilters(withStatus(f, "cancelled")),
        !.overdue = countWorkItemsByFilters(overdueConditions(f))]

\* the check of getWorkItemStats that fails; "" when all pass
statsError(q) ==
    IF q.createdBy # <<>> /\ emailRegexTest(q.createdBy)
          /\ AdminFindOneActiveByEmail(toLowerCase(q.createdBy)) = NoRef
    THEN "User with email does not exist"
    ELSE IF q.createdBy # <<>> /\ ~emailRegexTest(q.createdBy)
            /\ ~isValidObjectId(q.createdBy)
    THEN "createdBy must be a valid user ID or email address"
    ELSE IF q.assignedTo # <<>> /\ AdminFindOneActiveByEmail(toLowerCase(q.assignedTo)) = NoRef
    THEN "User with email does not exist"
    ELSE ""

statsQueryFilters(q) ==
    [NoFilters EXCEPT
        !.keys = {"isActive"}
                 \cup (IF q.createdBy # <<>> THEN {"createdBy"} ELSE {})
                 \cup (IF q.assignedTo # <<>> THEN {"assignedTo"} ELSE {}),
        !.isActive = TRUE,
        !.createdBy = IF emailRegexTest(q.createdBy)
                      THEN AdminFindOneActiveByEmail(toLowerCase(q.createdBy))
                      ELSE castObjectId(q.createdBy),
        !.assignedTo = AdminFindOneActiveByEmail(toLowerCase(q.assignedTo))]

getWorkItemStats(q) ==
    LET e == statsError(q)
    IN  /\ result' = Asked(
               IF e # ""
               THEN FailWith("stats", NoId, e,
                             IF e # "User with email does not exist" THEN <<>>
                             ELSE IF q.createdBy # <<>> /\ emailRegexTest(q.createdBy)
                                     /\ AdminFindOneActiveByEmail(toLowerCase(q.createdBy)) = NoRef
                             THEN q.createdBy ELSE q.assignedTo)
               ELSE [Ok("stats", NoId, <<>>, 0)
                        EXCEPT !.stats = countByStatus(statsQueryFilters(q))], q)
        /\ UNCHANGED <<store, nextId, now, calls, mail>>

\* the six count queries of getWorkItemStats, by the name of their result
CountQueries == {"total", "pending", "inProgress", "completed", "cancelled", "overdue"}

\* the query filters of the count query k under the query filters f, built
\* at the time t
countQuery(k, f, t) ==
    CASE k = "total" -> f
      [] k = "pending" -> withStatus(f, "pending")
      [] k = "inProgress" -> withStatus(f, "in_progress")
      [] k = "completed" -> withStatus(f, "completed")
      [] k = "cancelled" -> withStatus(f, "cancelled")
      [] k = "overdue" -> [overdueConditions(f) EXCEPT !.dueDate = t]

\* getWorkItemStats up to Promise.all: the filters are resolved and the six
\* count queries are built and sent
getWorkItemStatsBegins(c, q) ==
    LET e == statsError(q)
    IN  /\ calls[c].pc = "idle"
        /\ IF e # ""
           THEN /\ result' = Asked(FailWith("stats", NoId, e, <<>>), q)
                /\ UNCHANGED calls
           ELSE /\ calls' = [calls EXCEPT ![c] = [NoCall EXCEPT !.pc = "counting", !.at = now]]
                /\ UNCHANGED result
        /\ UNCHANGED <<store, nextId, now, mail>>

\* the database answers the count query k of the request c
getWorkItemStatsCounts(c, k) ==
    /\ calls[c].pc = "counting"
    /\ k \in CountQueries \ calls[c].taken
    /\ calls' = [calls EXCEPT
                    ![c].taken = @ \cup {k},
                    ![c].counts[k] =
                        countWorkItemsByFilters(
                            countQuery(k, statsQueryFilters(NoQuery), calls[c].at))]
    /\ UNCHANGED <<store, nextId, now, result, mail>>

\* the six counts have arrived and getWorkItemStats returns them
getWorkItemStatsReturns(c) ==
    /\ calls[c].pc = "counting"
    /\ calls[c].taken = CountQueries
    /\ result' = Asked([Ok("stats", NoId, <<>>, 0) EXCEPT !.stats = calls[c].counts], NoQuery)
    /\ calls' = [calls EXCEPT ![c] = NoCall]
    /\ UNCHANGED <<store, nextId, now, mail>>

(***************************************************************************)
(* Number arithmetic of getMyWorkItemStats.  A Number is an IEEE 754       *)
(* double: m * 2^e with m a significand of 53 bits, kept as the sequence   *)
(* of its bits, most significant first.  Division and multiplication round *)
(* to nearest, ties to even.                                               *)
(***************************************************************************)
SignificandBits == 53

\* the number of zero bits that follow the binary point of r / t, 0 < r < t
RECURSIVE leadingZeros(_, _)
leadingZeros(r, t) == IF 2 * r >= t THEN 0 ELSE 1 + leadingZeros(2 * r, t)

RECURSIVE shiftLeft(_, _)
shiftLeft(r, z) == IF z = 0 THEN r ELSE shiftLeft(2 * r, z - 1)

\* long division: the next n bits of r / t and the remainder that is left
RECURSIVE divBits(_, _, _, _)
divBits(r, t, n, acc) ==
    IF n = 0 THEN [bits |-> acc, rem |-> r]
    ELSE IF 2 * r >= t THEN divBits(2 * r - t, t, n - 1, Append(acc, 1))
    ELSE divBits(2 * r, t, n - 1, Append(acc, 0))

\* b + 1 on bits; one bit longer when every bit of b is 1
RECURSIVE increment(_)
increment(b) ==
    IF b = <<>> THEN <<1>>
    ELSE IF b[Len(b)] = 0 THEN [b EXCEPT ![Len(b)] = 1]
    ELSE increment(SubSeq(b, 1, Len(b) - 1)) \o <<0>>

\* the bits of the natural number n, without leading zeros
RECURSIVE toBits(_)
toBits(n) == IF n = 0 THEN <<>> ELSE Append(toBits(n \div 2), n % 2)

\* the natural number of a short sequence of bits
RECURSIVE toInt(_)
toInt(b) == IF b = <<>> THEN 0 ELSE 2 * toInt(SubSeq(b, 1, Len(b) - 1)) + b[Len(b)]

\* the exact value bits * 2^e (plus a part below the last bit when sticky),
\* of more than 53 bits with a leading 1, rounded to a double
roundToDouble(bits, sticky, e) ==
    LET len == Len(bits)
        keep == SubSeq(bits, 1, SignificandBits)
        guard == bits[SignificandBits + 1]
        rest == sticky \/ \E i \in (SignificandBits + 2)..len : bits[i] = 1
        up == guard = 1 /\ (rest \/ keep[SignificandBits] = 1)
        m == IF up THEN increment(keep) ELSE keep
    IN  IF Len(m) > SignificandBits
        THEN [m |-> SubSeq(m, 1, SignificandBits), e |-> e + (len - SignificandBits) + 1]
        ELSE [m |-> m, e |-> e + (len - SignificandBits)]

\* part / whole for 0 < part <= whole
divide(part, whole) ==
    IF part = whole
    THEN [m |-> <<1>> \o [i \in 1..(SignificandBits - 1) |-> 0], e |-> 1 - SignificandBits]
    ELSE LET z == leadingZeros(part, whole)
             d == divBits(shiftLeft(part, z), whole, SignificandBits + 1, <<>>)
         IN  roundToDouble(d.bits, d.rem # 0, 0 - (z + SignificandBits + 1))

\* the bits of m * k for a small k: the bits of m from the i-th down, with
\* the carry of the bits already multiplied
RECURSIVE timesSmall(_, _, _, _, _)
timesSmall(m, i, k, carry, acc) ==
    IF i = 0 THEN toBits(carry) \o acc
    ELSE timesSmall(m, i - 1, k, (k * m[i] + carry) \div 2,
                    <<(k * m[i] + carry) % 2>> \o acc)

\* x * 100
times100(x) == roundToDouble(timesSmall(x.m, Len(x.m), 100, 0, <<>>), FALSE, x.e)

\* Math.round(x) for 0 < x < 2^52: the nearest integer, a half going up
mathRound(x) ==
    LET s == 0 - x.e
    IN  IF s > SignificandBits THEN 0
        ELSE IF s = SignificandBits THEN 1
        ELSE toInt(SubSeq(x.m, 1, SignificandBits - s)) + x.m[SignificandBits - s + 1]

\* Math.round((part / whole) * 100) for whole > 0
Percent(part, whole) ==
    IF part = 0 THEN 0 ELSE mathRound(times100(divide(part, whole)))

getMyWorkItemStats(userId) ==
    LET f == [NoFilters EXCEPT !.keys = {"isActive", "or"}, !.or = userId]
        counts == countByStatus(f)
        total == counts.total
    IN  /\ result' = Asked(
               IF userId = NoRef
               THEN Fail("myStats", NoId, "User ID is required")
               ELSE [Ok("myStats", NoId, <<>>, 0) EXCEPT !.stats =
                       [counts EXCEPT
                          !.assigned = countWorkItemsByFilters(
                              [NoFilters EXCEPT !.keys = {"isActive", "assignedTo"},
                                                !.assignedTo = userId]),
                          !.created = countWorkItemsByFilters(
                              [NoFilters EXCEPT !.keys = {"isActive", "createdBy"},
                                                !.createdBy = userId]),
                          !.completionRate =
                              IF total > 0 THEN Percent(counts.completed, total) ELSE 0,
                          !.overdueRate =
                              IF total > 0 THEN Percent(counts.overdue, total) ELSE 0]],
               [NoQuery EXCEPT !.userId = userId])
        /\ UNCHANGED <<store, nextId, now, calls, mail>>

\* the Admin collection in the order of sort('firstName lastName')
AdminsByName == <<"a1", "a2", "a3">>

\* getAssigneeList letting the error of a rejected query through;
\* `rejects` says whether one of its two queries is rejected
getAssigneeListPropagating(rejects) ==
    LET assignedUserIds ==
            {store[i].assignedTo :
                i \in Find([NoFilters EXCEPT !.keys = {"isActive", "assigned"}])}
        Assigned(a) == a \in assignedUserIds /\ a \in ActiveAdmins
        assignedUsers == SelectSeq(AdminsByName, Assigned)
    IN  /\ result' =
              IF rejects
              THEN [Fail("listAssignees", NoId, "Database error") EXCEPT !.rejected = TRUE]
              ELSE Asked([Ok("listAssignees", NoId, <<>>, 0) EXCEPT !.users =
                            [k \in 1..Len(assignedUsers) |->
                                [email |-> AdminEmails[assignedUsers[k]]]]], NoQuery)
        /\ UNCHANGED <<store, nextId, now, calls, mail>>

\* try { distinct ...; Admin.find({ _id: { $in }, isActive: true }) ... }
\* catch { return [] }
getAssigneeList(rejects) ==
    LET assignedUserIds ==
            {store[i].assignedTo :
                i \in Find([NoFilters EXCEPT !.keys = {"isActive", "assigned"}])}
        Assigned(a) == a \in assignedUserIds /\ a \in ActiveAdmins
        assignedUsers == SelectSeq(AdminsByName, Assigned)
    IN  /\ result' =
              IF rejects
              THEN [Ok("listAssignees", NoId, <<>>, 0) EXCEPT !.rejected = TRUE]
              ELSE Asked([Ok("listAssignees", NoId, <<>>, 0) EXCEPT !.users =
                            [k \in 1..Len(assignedUsers) |->
                                [email |-> AdminEmails[assignedUsers[k]]]]], NoQuery)
        /\ UNCHANGED <<store, nextId, now, calls, mail>>

(***************************************************************************)
(* WorkItemController: the response each handler gives to the outcome of   *)
(* its service call.                                                       *)
(***************************************************************************)
\* respondHandler: the status code and the message of a response
successResponse(message, code) == [status |-> code, message |-> message, detail |-> <<>>]
errorResponse(message, detail, code) == [status |-> code, message |-> message, detail |-> detail]
notFoundResponse(entity) == [status |-> 404, message |-> entity, detail |-> <<>>]

\* the message each handler passes to successResponse
successMessage ==
    [create |-> "Work item created successfully",
     getById |-> "Work item retrieved successfully",
     update |-> "Work item updated successfully",
     delete |-> "Work item deleted successfully",
     permanentlyDelete |-> "Work item permanently deleted successfully",
     restore |-> "Work item restored successfully",
     bulkUpdate |-> "Work items bulk updated successfully"]

\* the message each handler uses for an error that has none
fallbackMessage ==
    [create |-> "Failed to create work item",
     getById |-> "Failed to fetch work item",
     update |-> "Failed to update work item",
     delete |-> "Failed to delete work item",
     permanentlyDelete |-> "Failed to permanently delete work item",
     restore |-> "Failed to restore work item",
     bulkUpdate |-> "Failed to bulk update work items"]

\* the error message a handler answers with notFoundResponse, and the entity
\* it names
notFoundMessage ==
    [getById |-> "Work item not found",
     update |-> "Work item not found",
     delete |-> "Work item not found",
     permanentlyDelete |-> "Work item not found",
     restore |-> "Deleted work item not found"]

notFoundEntity ==
    [getById |-> "Work item",
     update |-> "Work item",
     delete |-> "Work item",
     permanentlyDelete |-> "Work item",
     restore |-> "Deleted work item"]

\* the handlers comparing every error with 'Work item not found'
controllerResponseOneMessage(r) ==
    IF ~r.threw
    THEN successResponse(successMessage[r.op], IF r.op = "create" THEN 201 ELSE 200)
    ELSE IF r.op \in DOMAIN notFoundMessage /\ r.err = "Work item not found"
    THEN notFoundResponse(notFoundEntity[r.op])
    ELSE errorResponse(IF r.err # "" THEN r.err ELSE fallbackMessage[r.op], r.detail, 400)

\* try { ... successResponse } catch (error) { ... }: the response to the
\* outcome r of the service call
controllerResponse(r) ==
    IF ~r.threw
    THEN successResponse(successMessage[r.op], IF r.op = "create" THEN 201 ELSE 200)
    ELSE IF r.op \in DOMAIN notFoundMessage /\ r.err = notFoundMessage[r.op]
    THEN notFoundResponse(notFoundEntity[r.op])
    ELSE errorResponse(IF r.err # "" THEN r.err ELSE fallbackMessage[r.op], r.detail, 400)

\* the messages of the errors a failing database call rejects with
DatabaseErrors == {"", "Database error"}

\* the first database call of a service method is rejected
databaseFails(op, id, m) ==
    /\ result' = [Fail(op, id, m) EXCEPT !.rejected = TRUE]
    /\ UNCHANGED <<store, nextId, now, calls, mail>>

(***************************************************************************)
(* sendEmail                                                               *)
(***************************************************************************)
\* the messages of the errors transporter.sendMail rejects with
SendMailErrors == {"Connection timeout", "Invalid login", "Greeting never received"}

\* sendEmail(to, subject, text, html, retries) is called
sendEmailBegins(retries, given, configured) ==
    /\ mail.pc \in {"idle", "returned", "thrown"}
    /\ mail' = [NoMail EXCEPT !.pc = IF 1 <= retries THEN "attempt" ELSE "thrown",
                              !.retries = retries, !.attempt = 1,
                              !.given = given, !.configured = configured,
                              !.thrown = IF 1 <= retries THEN <<>>
                                         ELSE <<"TypeError">>]
    /\ UNCHANGED <<store, nextId, now, result, calls>>

\* what follows the catch of an attempt that failed with the message m, in a
\* loop that waits after every failed attempt
afterFailureAlwaysWaiting(m) ==
    [mail EXCEPT !.lastError = m, !.attempts = @ + 1, !.pc = "wait",
                 !.delay = mail.attempt * 2000]

\* catch (error) { lastError = error; if (attempt < retries) await ... } and
\* the loop's attempt++, and the throw that follows the loop
afterFailure(m) ==
    IF mail.attempt < mail.retries
    THEN [mail EXCEPT !.lastError = m, !.attempts = @ + 1, !.pc = "wait",
                      !.delay = mail.attempt * 2000]
    ELSE [mail EXCEPT !.lastError = m, !.attempts = @ + 1, !.pc = "thrown",
                      !.attempt = @ + 1,
                      !.thrown = <<"Email delivery failed: ", m>>]

\* one pass through the try block; `outcome` is "sent" or the message of the
\* error sendMail rejects with
sendEmailAttempts(outcome) ==
    /\ mail.pc = "attempt"
    /\ mail' = IF ~mail.given THEN afterFailure("Missing required email parameters")
               ELSE IF ~mail.configured THEN afterFailure("EMAIL_USER not configured")
               ELSE IF outcome = "sent"
               THEN [mail EXCEPT !.attempts = @ + 1, !.pc = "returned"]
               ELSE afterFailure(outcome)
    /\ UNCHANGED <<store, nextId, now, result, calls>>

\* the timer of the wait between two attempts fires: attempt++ and the loop
\* goes on, or is left
sendEmailWaitEnds ==
    /\ mail.pc = "wait"
    /\ mail' = IF mail.attempt + 1 <= mail.retries
               THEN [mail EXCEPT !.attempt = @ + 1, !.waits = @ + 1, !.pc = "attempt"]
               ELSE [mail EXCEPT !.attempt = @ + 1, !.waits = @ + 1, !.pc = "thrown",
                                 !.thrown = <<"Email delivery failed: ", mail.lastError>>]
    /\ UNCHANGED <<store, nextId, now, result, calls>>

(***************************************************************************)
(* The clock.                                                              *)
(***************************************************************************)
Tick ==
    /\ now < MaxTime
    /\ now' = now + 1
    /\ UNCHANGED <<store, nextId, result, calls, mail>>

\* the clock running on until the time t
TickUntil(t) ==
    /\ now < t
    /\ now' = now + 1
    /\ UNCHANGED <<store, nextId, result, calls, mail>>

(***************************************************************************)
(* Request bodies the clients send.                                        *)
(***************************************************************************)
With(d, k, v) == [d EXCEPT !.keys = @ \cup {k}, ![k] = v]

GoodTitle == <<" ", "a", "b", "c">>
ShortTitle == <<"a", "b", " ">>
OtherTitle == <<"w", "x", "y", "z">>
GoodDescription == [i \in 1..10 |-> "d"]
ShortDescription == [i \in 1..9 |-> "d"]

KnownEmail == Str(<<"J", "@", "x", ".", "i", "o">>)
OtherKnownEmail == Str(<<"k", "@", "x", ".", "i", "o">>)
\* the e-mail of the Admin that is not active
InactiveEmail == Str(<<"l", "@", "x", ".", "i", "o">>)
UnknownEmail == Str(<<"z", "@", "x", ".", "i", "o">>)
MalformedEmail == Str(<<"j", "@", "x">>)

GoodData == With(With(NoInput, "title", GoodTitle), "description", GoodDescription)

\* bodies of create: valid ones that differ in status, and a rejected one
CreateInputs ==
    {GoodData,
     With(GoodData, "status", "completed"),
     With(GoodData, "tags", {"x"}),
     With(GoodData, "status", "bogus")}

\* bodies of update: every status change, an empty body, a status the
\* service lets through to the schema, and keys outside the allow-list
UpdateInputs ==
    {NoInput,
     With(NoInput, "status", "pending"),
     With(NoInput, "status", "in_progress"),
     With(NoInput, "status", "completed"),
     With(NoInput, "status", ""),
     With(NoInput, "status", "bogus"),
     With(With(NoInput, "isActive", FALSE), "completedAt", 0)}

\* bodies of bulkUpdate: status changes, tags, an empty body, and keys
\* outside the allow-list
BulkInputs ==
    {NoInput,
     With(NoInput, "status", "pending"),
     With(NoInput, "status", "completed"),
     With(NoInput, "tags", {"x"}),
     With(With(With(NoInput, "title", OtherTitle), "isActive", FALSE), "status", "in_progress")}

\* bodies of create, one for each validation that can fail, some failing
\* several at once
InvalidCreateInputs ==
    {With(GoodData, "title", ShortTitle),
     With(NoInput, "description", GoodDescription),
     With(GoodData, "description", ShortDescription),
     With(GoodData, "priority", "bogus"),
     With(GoodData, "status", "bogus"),
     With(GoodData, "assignedTo", NonString),
     With(GoodData, "assignedTo", MalformedEmail),
     With(GoodData, "assignedTo", UnknownEmail),
     With(GoodData, "dueDate", InvalidDate),
     With(GoodData, "dueDate", 0),
     With(With(GoodData, "dueDate", 0), "status", "bogus")}

InvalidUpdateInputs ==
    {With(NoInput, "status", "bogus"),
     With(NoInput, "priority", "bogus"),
     With(NoInput, "title", ShortTitle),
     With(NoInput, "assignedTo", NonString),
     With(NoInput, "assignedTo", MalformedEmail),
     With(With(NoInput, "assignedTo", UnknownEmail), "status", "completed"),
     With(NoInput, "dueDate", InvalidDate)}

InvalidBulkInputs ==
    {NoInput,
     With(NoInput, "title", OtherTitle),
     With(NoInput, "status", "bogus"),
     With(NoInput, "priority", "bogus"),
     With(NoInput, "assignedTo", NonString),
     With(NoInput, "assignedTo", MalformedEmail),
     With(With(NoInput, "assignedTo", UnknownEmail), "status", "completed")}

\* keys that no update may write, with values that differ from the stored ones
ForbiddenKeys ==
    With(With(With(With(NoInput, "isActive", FALSE), "completedAt", 0),
              "createdBy", "a2"), "creatorModel", "User")

\* bodies of update that carry keys outside the allow-list, alone and next to
\* allowed ones
FrameUpdateInputs ==
    {ForbiddenKeys,
     With(ForbiddenKeys, "status", "completed"),
     With(ForbiddenKeys, "status", "pending"),
     With(With(ForbiddenKeys, "title", OtherTitle), "priority", "high"),
     With(NoInput, "isActive", TRUE),
     With(NoInput, "status", "in_progress")}

\* due dates before, at and after any time of the clock
DueDates == 0..(MaxTime + 1)

DueDateCreateInputs ==
    {GoodData, With(GoodData, "dueDate", InvalidDate)}
        \cup {With(GoodData, "dueDate", d) : d \in DueDates}

DueDateUpdateInputs ==
    {With(NoInput, "title", OtherTitle), With(NoInput, "dueDate", InvalidDate)}
        \cup {With(NoInput, "dueDate", d) : d \in DueDates}

\* bodies that break several rules at once
SeveralInvalidCreateInputs ==
    {With(With(NoInput, "title", ShortTitle), "description", ShortDescription),
     With(With(GoodData, "description", ShortDescription), "priority", "bogus"),
     With(With(GoodData, "priority", "bogus"), "status", "bogus"),
     With(With(GoodData, "status", "bogus"), "assignedTo", MalformedEmail),
     With(With(GoodData, "assignedTo", NonString), "dueDate", InvalidDate),
     With(With(GoodData, "assignedTo", UnknownEmail), "dueDate", 0),
     With(With(GoodData, "priority", "bogus"), "dueDate", 0)}

SeveralInvalidUpdateInputs ==
    {With(With(NoInput, "priority", "bogus"), "status", "bogus"),
     With(With(NoInput, "status", "bogus"), "assignedTo", MalformedEmail),
     With(With(NoInput, "priority", "bogus"), "assignedTo", UnknownEmail),
     With(With(NoInput, "assignedTo", NonString), "status", "bogus"),
     With(With(NoInput, "title", ShortTitle), "status", "bogus"),
     With(With(NoInput, "description", ShortDescription), "assignedTo", UnknownEmail),
     With(NoInput, "priority", "bogus")}

\* bodies whose status or priority is outside the enums, or empty
EnumCreateInputs ==
    {GoodData,
     With(GoodData, "status", "bogus"),
     With(GoodData, "priority", "bogus"),
     With(With(GoodData, "status", ""), "priority", "")}

EnumUpdateInputs ==
    {With(NoInput, "status", "bogus"),
     With(NoInput, "priority", "bogus"),
     With(NoInput, "status", ""),
     With(NoInput, "priority", ""),
     With(With(NoInput, "status", "cancelled"), "priority", "urgent")}

\* bodies with an assignedTo that resolves, is unknown or is malformed
AssigneeCreateInputs ==
    {GoodData,
     With(GoodData, "assignedTo", KnownEmail),
     With(GoodData, "assignedTo", UnknownEmail),
     With(GoodData, "assignedTo", MalformedEmail),
     With(With(GoodData, "assignedTo", MalformedEmail), "title", ShortTitle)}

AssigneeUpdateInputs ==
    {With(NoInput, "assignedTo", KnownEmail),
     With(NoInput, "assignedTo", OtherKnownEmail),
     With(NoInput, "assignedTo", UnknownEmail),
     With(NoInput, "assignedTo", MalformedEmail),
     With(With(NoInput, "assignedTo", KnownEmail), "status", "bogus")}

\* a string of n letters between two spaces
Padded(n) == <<" ">> \o [i \in 1..n |-> "t"] \o <<" ">>

\* titles and descriptions at and around the limits of their lengths
LengthTitles ==
    {Padded(TitleMinLength - 1), Padded(TitleMinLength),
     Padded(TitleMaxLength), Padded(TitleMaxLength + 1), <<" ", " ", " ">>}

LengthDescriptions ==
    {Padded(DescriptionMinLength - 1), Padded(DescriptionMinLength),
     Padded(DescriptionMaxLength), Padded(DescriptionMaxLength + 1)}

LengthCreateInputs ==
    {With(GoodData, "title", t) : t \in LengthTitles}
        \cup {With(GoodData, "description", t) : t \in LengthDescriptions}

LengthUpdateInputs ==
    {With(NoInput, "title", t) : t \in LengthTitles}
        \cup {With(NoInput, "description", t) : t \in LengthDescriptions}

\* valid bodies of create that differ in what they leave to the defaults
CreatedInputs ==
    {GoodData,
     With(GoodData, "status", "in_progress"),
     With(GoodData, "priority", "high"),
     With(With(GoodData, "status", ""), "priority", ""),
     With(With(With(GoodData, "status", "completed"), "priority", "urgent"),
          "assignedTo", KnownEmail),
     With(GoodData, "title", ShortTitle)}

\* bodies of create for the statistics: every status with a due date that
\* passes, and items that never become overdue
StatsCreateInputs ==
    {GoodData, With(GoodData, "dueDate", MaxTime + 1)}
        \cup {With(With(GoodData, "status", st), "dueDate", 0) : st \in validStatuses}

BulkIdLists == {NoIds} \cup {IdList(S) : S \in SUBSET Ids}

Creators == {"a1"}

\* bodies of create for the queries: items that differ in assignee, due date
\* and status
QueryCreateInputs ==
    {GoodData,
     With(With(GoodData, "assignedTo", KnownEmail), "dueDate", 0),
     With(With(GoodData, "assignedTo", OtherKnownEmail), "status", "completed")}

\* filters and options of getAllWorkItems
ListQueries ==
    {NoQuery,
     [NoQuery EXCEPT !.includeDeleted = TRUE],
     [NoQuery EXCEPT !.status = {"pending"}],
     [NoQuery EXCEPT !.status = {"completed", "cancelled"}, !.includeDeleted = TRUE],
     [NoQuery EXCEPT !.priority = {"high"}],
     [NoQuery EXCEPT !.assignedTo = KnownEmail.s],
     [NoQuery EXCEPT !.assignedTo = UnknownEmail.s],
     [NoQuery EXCEPT !.createdBy = AdminIds.a1],
     [NoQuery EXCEPT !.createdBy = [i \in 1..24 |-> "B"], !.includeDeleted = TRUE],
     [NoQuery EXCEPT !.createdBy = KnownEmail.s],
     [NoQuery EXCEPT !.limit = 1],
     [NoQuery EXCEPT !.page = 2, !.limit = 1],
     [NoQuery EXCEPT !.page = 2, !.limit = 1, !.includeDeleted = TRUE]}

\* filters of getWorkItemStats
StatsQueries ==
    {NoQuery,
     [NoQuery EXCEPT !.createdBy = KnownEmail.s],
     [NoQuery EXCEPT !.createdBy = UnknownEmail.s],
     [NoQuery EXCEPT !.createdBy = MalformedEmail.s],
     [NoQuery EXCEPT !.createdBy = AdminIds.a1],
     [NoQuery EXCEPT !.assignedTo = OtherKnownEmail.s],
     [NoQuery EXCEPT !.assignedTo = UnknownEmail.s, !.createdBy = AdminIds.a2]}

StatusArguments == validStatuses \cup {"bogus"}

\* bodies of create for the overdue listing: due dates that pass one after
\* the other, under statuses that are and are not overdue, and no due date
OverdueCreateInputs ==
    {GoodData}
        \cup {With(With(GoodData, "dueDate", d), "status", st) :
                 d \in 0..(MaxLateness - 1), st \in {"pending", "in_progress", "completed"}}
        \cup {With(With(GoodData, "dueDate", 0), "status", "cancelled")}

\* bodies of the updates that two requests send for the same item
RaceUpdateInputs ==
    {With(NoInput, "status", st) : st \in {"completed", "in_progress"}}
        \cup {With(NoInput, "status", "bogus"), With(NoInput, "title", OtherTitle)}

\* bodies that assign the items to active and inactive identities
DirectoryCreateInputs ==
    {GoodData} \cup {With(GoodData, "assignedTo", e) :
                       e \in {KnownEmail, OtherKnownEmail, InactiveEmail}}

DirectoryUpdateInputs ==
    {With(NoInput, "assignedTo", e) : e \in {KnownEmail, InactiveEmail}}

\* pages and page sizes a client asks for; 0 stands for an option that is
\* not given
PageOptions == 0..3
LimitOptions == {0, 1, 5}

\* queries of getAllWorkItems that differ in their paging
PageQueries ==
    {[NoQuery EXCEPT !.page = p, !.limit = l, !.includeDeleted = del, !.status = st] :
        p \in PageOptions, l \in LimitOptions, del \in BOOLEAN,
        st \in {{}, {"completed"}}}

(***************************************************************************)
(* The service as a state machine.                                         *)
(***************************************************************************)
Init ==
    /\ store = <<>>
    /\ nextId = 1
    /\ now = 0
    /\ result = NoResult
    /\ calls = NoCalls
    /\ mail = NoMail

Create(inputs) == \E d \in inputs, c \in Creators : createWorkItem(d, c)
GetById == \E id \in Ids : getWorkItemById(id)
Update(inputs) == \E id \in Ids, p \in inputs : updateWorkItem(id, p)
BulkUpdate(inputs) == \E ids \in BulkIdLists, p \in inputs : bulkUpdateWorkItems(ids, p)
Delete == \E id \in Ids : deleteWorkItem(id)
PermanentlyDelete == \E id \in Ids : permanentlyDeleteWorkItem(id)
Restore == \E id \in Ids : restoreWorkItem(id)

\* the life of the items: creation, status changes, deletion and restoring
Next ==
    \/ Create(CreateInputs)
    \/ GetById
    \/ Update(UpdateInputs)
    \/ BulkUpdate(BulkInputs)
    \/ Delete
    \/ PermanentlyDelete
    \/ Restore
    \/ Tick

Spec == Init /\ [][Next]_vars

TypeOK ==
    /\ DOMAIN store \subseteq Ids
    /\ nextId \in 1..(MaxItems + 1)
    /\ now \in Times
    /\ \A i \in DOMAIN store : i < nextId /\ DOMAIN store[i] = DocFields

\* requests that fail a validation or a directory lookup, against a store
\* that valid requests fill
NextValidation ==
    \/ Create(InvalidCreateInputs \cup {GoodData})
    \/ Update(InvalidUpdateInputs \cup {With(NoInput, "status", "completed")})
    \/ BulkUpdate(InvalidBulkInputs \cup {With(NoInput, "status", "pending")})
    \/ Tick

SpecValidation == Init /\ [][NextValidation]_vars

\* updates whose body carries keys outside the allow-list
NextFrame ==
    \/ Create({GoodData, With(GoodData, "status", "completed")})
    \/ Update(FrameUpdateInputs)
    \/ Delete
    \/ Tick

SpecFrame == Init /\ [][NextFrame]_vars

\* creations and updates that carry a due date, as time passes
NextDueDate ==
    \/ Create(DueDateCreateInputs)
    \/ Update(DueDateUpdateInputs)
    \/ Tick

SpecDueDate == Init /\ [][NextDueDate]_vars

\* requests that break several rules at once
NextOrder ==
    \/ Create(SeveralInvalidCreateInputs \cup {GoodData})
    \/ Update(SeveralInvalidUpdateInputs)
    \/ BulkUpdate(SeveralInvalidUpdateInputs)
    \/ Tick

SpecOrder == Init /\ [][NextOrder]_vars

List == \E q \in ListQueries : getAllWorkItems(q)
ListByStatus == \E status \in StatusArguments : getWorkItemsByStatus(status)
ListAssignedTo == \E u \in ActiveAdmins : getMyAssignedWorkItems(u)
ListCreatedBy == \E u \in ActiveAdmins : getMyCreatedWorkItems(u)
ListOverdue == getOverdueWorkItems
Stats == \E q \in StatsQueries : getWorkItemStats(q)
MyStats == \E u \in ActiveAdmins \cup {NoRef} : getMyWorkItemStats(u)
ListAssignees == getAssigneeList(FALSE)

\* the reads, over a store that creation, deletion and restoring change
NextQuery ==
    \/ Create(QueryCreateInputs)
    \/ Delete
    \/ Restore
    \/ List
    \/ ListByStatus
    \/ ListAssignedTo
    \/ ListCreatedBy
    \/ ListOverdue
    \/ Stats
    \/ MyStats
    \/ ListAssignees
    \/ Tick

SpecQuery == Init /\ [][NextQuery]_vars

\* the store after n creations by the first identity at time 0, the first c
\* of them with status completed and the others pending and due at time 0
Fixture(n, c) ==
    [i \in 1..n |->
        ApplySet(workItemSchema,
                 newWorkItemData(With(With(GoodData, "dueDate", 0), "status",
                                      IF i <= c THEN "completed" ELSE "pending"),
                                 "a1"))]

InitFixture ==
    /\ \E n \in 0..MaxFixture : \E c \in 0..n :
          /\ store = Fixture(n, c)
          /\ nextId = n + 1
    /\ now = 0
    /\ result = NoResult
    /\ calls = NoCalls
    /\ mail = NoMail

\* the personal statistics over stores of every size, as due dates pass
NextRates ==
    \/ MyStats
    \/ Tick

SpecRates == InitFixture /\ [][NextRates]_vars

\* deletions and restores of items of every shape the writes can leave
NextReversible ==
    \/ Create({GoodData,
               With(With(With(GoodData, "status", "completed"), "assignedTo", KnownEmail),
                    "dueDate", MaxTime)})
    \/ Update({With(NoInput, "status", "completed")})
    \/ BulkUpdate({With(NoInput, "status", "")})
    \/ Delete
    \/ Restore

SpecReversible == Init /\ [][NextReversible]_vars

\* one item whose completedAt is set exactly when it is completed: as it is
\* created, or as an update to completed has left it
InitRace ==
    /\ \/ store = Fixture(1, 0)
       \/ store = [Fixture(1, 1) EXCEPT ![1].completedAt = 0]
    /\ nextId = 2
    /\ now = 0
    /\ result = NoResult
    /\ calls = NoCalls
    /\ mail = NoMail

UpdateReads == \E c \in Callers, id \in {1, 2}, p \in RaceUpdateInputs : updateWorkItemReads(c, id, p)
UpdateWrites == \E c \in Callers : updateWorkItemWrites(c)

\* two update requests, each run once, in any interleaving
NextRace ==
    \/ UpdateReads
    \/ UpdateWrites

SpecRace == InitRace /\ [][NextRace]_vars

StatsBegins == \E q \in {NoQuery, [NoQuery EXCEPT !.assignedTo = UnknownEmail.s]} :
                   getWorkItemStatsBegins("r1", q)
StatsCounts == \E k \in CountQueries : getWorkItemStatsCounts("r1", k)
StatsReturns == getWorkItemStatsReturns("r1")

\* a statistics request whose six counts are answered one by one, while
\* other requests write
NextStatsRace ==
    \/ StatsBegins
    \/ StatsCounts
    \/ StatsReturns
    \/ Create({With(GoodData, "dueDate", 0)})
    \/ Update({With(NoInput, "status", "completed")})
    \/ BulkUpdate({With(NoInput, "status", "in_progress")})
    \/ Delete
    \/ Restore
    \/ Tick

\* every id but the last has been given out and its record removed for good
InitLastItem ==
    /\ store = <<>>
    /\ nextId = MaxItems
    /\ now = 0
    /\ result = NoResult
    /\ calls = NoCalls
    /\ mail = NoMail

SpecStatsRace == InitLastItem /\ [][NextStatsRace]_vars

\* every operation on the items, with bodies that try to write isActive
NextLifecycle ==
    \/ Create({GoodData})
    \/ Update({With(NoInput, "isActive", FALSE), With(NoInput, "isActive", TRUE),
               With(ForbiddenKeys, "status", "completed")})
    \/ BulkUpdate({With(With(NoInput, "status", "in_progress"), "isActive", FALSE),
                   With(NoInput, "isActive", TRUE)})
    \/ Delete
    \/ PermanentlyDelete
    \/ Restore
    \/ GetById
    \/ ListCreatedBy
    \/ ListOverdue
    \/ ListAssignees

SpecLifecycle == Init /\ [][NextLifecycle]_vars

SendEmailBegins ==
    \E retries \in 1..MaxRetries, given \in BOOLEAN, configured \in BOOLEAN :
        sendEmailBegins(retries, given, configured)
SendEmailAttempts == \E outcome \in SendMailErrors \cup {"sent"} : sendEmailAttempts(outcome)
SendEmailWaitEnds == sendEmailWaitEnds

\* calls of sendEmail, one after the other
NextMail ==
    \/ SendEmailBegins
    \/ SendEmailAttempts
    \/ SendEmailWaitEnds

\* sendMail settles (the transporter has connection, socket and greeting
\* timeouts) and the timer of a wait fires
SpecMail ==
    /\ Init
    /\ [][NextMail]_vars
    /\ WF_vars(SendEmailAttempts)
    /\ WF_vars(SendEmailWaitEnds)

ListAssigneesOrFail == \E rejects \in BOOLEAN : getAssigneeList(rejects)

\* the assignee list over items assigned to every identity of the directory
NextDirectory ==
    \/ Create(DirectoryCreateInputs)
    \/ Update(DirectoryUpdateInputs)
    \/ Delete
    \/ ListAssigneesOrFail

SpecDirectory == Init /\ [][NextDirectory]_vars

DatabaseFails ==
    \E op \in DOMAIN notFoundMessage, id \in Ids, m \in DatabaseErrors : databaseFails(op, id, m)

\* the requests on single items, answered or failing
NextHttp ==
    \/ Create({GoodData, With(GoodData, "title", ShortTitle)})
    \/ GetById
    \/ Update({With(NoInput, "status", "completed"), With(NoInput, "status", "bogus"),
               With(NoInput, "assignedTo", UnknownEmail)})
    \/ Delete
    \/ PermanentlyDelete
    \/ Restore
    \/ DatabaseFails

SpecHttp == Init /\ [][NextHttp]_vars

\* the overdue listing as due dates pass
NextOverdue ==
    \/ Create(OverdueCreateInputs)
    \/ Delete
    \/ ListOverdue
    \/ TickUntil(MaxLateness)

SpecOverdue == Init /\ [][NextOverdue]_vars

\* stores of more items than a page of the default size holds
InitListed ==
    /\ \E n \in 0..MaxListed : \E c \in {0, 1} :
          /\ c <= n
          /\ store = Fixture(n, c)
          /\ nextId = n + 1
    /\ now = 0
    /\ result = NoResult
    /\ calls = NoCalls
    /\ mail = NoMail

ListPage == \E q \in PageQueries : getAllWorkItems(q)

\* listings page by page, next to deletions
NextPages ==
    \/ ListPage
    \/ Delete

SpecPages == InitListed /\ [][NextPages]_vars

\* the statistics over items of every status, as due dates pass
NextStats ==
    \/ Create(StatsCreateInputs)
    \/ Delete
    \/ Stats
    \/ Tick

SpecStats == Init /\ [][NextStats]_vars

CreateAs == \E d \in CreatedInputs, c \in ActiveAdmins : createWorkItem(d, c)

\* creations by either identity, next to deletions
NextCreate ==
    \/ CreateAs
    \/ Delete
    \/ GetById

SpecCreate == Init /\ [][NextCreate]_vars

\* creations and updates with titles and descriptions around the limits
NextLength ==
    \/ Create(LengthCreateInputs)
    \/ Update(LengthUpdateInputs)

SpecLength == Init /\ [][NextLength]_vars

\* requests that name an assignee
NextAssignee ==
    \/ Create(AssigneeCreateInputs)
    \/ Update(AssigneeUpdateInputs)
    \/ BulkUpdate(AssigneeUpdateInputs)
    \/ Delete

SpecAssignee == Init /\ [][NextAssignee]_vars

\* requests whose status or priority is outside the enums
NextEnum ==
    \/ Create(EnumCreateInputs)
    \/ Update(EnumUpdateInputs)
    \/ BulkUpdate(EnumUpdateInputs)
    \/ ListByStatus
    \/ Tick

SpecEnum == Init /\ [][NextEnum]_vars

(***************************************************************************)
(* Properties.  `result` describes the last operation: result.before is    *)
(* the collection when it began and `store` the collection it left.        *)
(***************************************************************************)
\* the id was given out and its record has been removed for good
Removed(st, next, id) == id < next /\ id \notin DOMAIN st

NotFoundErrors == {"Work item not found", "Deleted work item not found"}

\* C1: an update that succeeds sets completedAt to the current time when the
\* body's status is completed and the stored one is not, sets it to null when
\* the body's status is not completed and the stored one is, and leaves it as
\* it is when the body has no status or neither status is completed.
C1_UpdateDerivesCompletedAt ==
    (result.op = "update" /\ result.err = "") =>
        LET p == result.req
            old == result.before[result.id]
            new == store[result.id]
        IN  /\ (Has(p, "status") /\ p.status = "completed" /\ old.status # "completed")
                  => new.completedAt = result.at
            /\ (Has(p, "status") /\ p.status # "completed" /\ old.status = "completed")
                  => new.completedAt = NullDate
            /\ (~Has(p, "status") \/ (p.status # "completed" /\ old.status # "completed"))
                  => new.completedAt = old.completedAt

\* an update has taken an item out of completed, at a later time than 0,
\* while another item keeps the stamp of that time
C1_Witness ==
    /\ result.op = "update" /\ result.err = ""
    /\ result.req.status = "in_progress"
    /\ result.at > 0
    /\ result.before[result.id].status = "completed"
    /\ store[result.id].completedAt = NullDate
    /\ \E j \in DOMAIN store : store[j].completedAt = result.at

\* C2: in every reachable state each stored item has a completedAt exactly
\* when its status is completed.
C2_CompletedAtIffCompleted ==
    \A id \in DOMAIN store :
        (store[id].completedAt # NullDate) <=> (store[id].status = "completed")

\* C3 as stated: getById of a soft-deleted item fails with "Work item not found".
C3_GetByIdHidesDeleted ==
    (/\ result.op = "getById"
     /\ result.id \in DOMAIN result.before
     /\ ~result.before[result.id].isActive)
        => result.err = "Work item not found"

\* C3: getById of a soft-deleted item succeeds and returns the item, which
\* shows isActive = false; getById fails, with "Work item not found", exactly
\* when no record has the id.
C3_GetByIdReturnsDeleted ==
    result.op = "getById" =>
        LET id == result.id
            st == result.before
        IN  /\ (id \in DOMAIN st /\ ~st[id].isActive)
                  => /\ result.err = ""
                     /\ result.items = <<formatWorkItem(id, st[id])>>
                     /\ ~result.items[1].doc.isActive
            /\ (result.err # "") <=> (id \notin DOMAIN st)
            /\ (result.err # "") => result.err = "Work item not found"

C3_Witness ==
    /\ result.op = "getById" /\ result.err = ""
    /\ result.id \in DOMAIN store
    /\ ~store[result.id].isActive

\* the items of the collection st that are not soft-deleted
ActiveIn(st) == {i \in DOMAIN st : st[i].isActive}

\* C4: a soft-deleted item is never among the items returned by list without
\* includeDeleted, listByStatus, listAssignedTo, listCreatedBy or listOverdue,
\* is never counted in the total of list without includeDeleted or in a
\* counter of stats or myStats, and never brings its assignee into
\* listAssignees; when list returns a soft-deleted item the caller has
\* passed includeDeleted = true.
C4_InactiveItemsAreHidden ==
    LET st == result.before
        active == ActiveIn(st)
        n(P(_)) == Cardinality({i \in active : P(st[i])})
        IsPending(d) == d.status = "pending"
        IsInProgress(d) == d.status = "in_progress"
        IsCompleted(d) == d.status = "completed"
        IsCancelled(d) == d.status = "cancelled"
        IsOverdue(d) == /\ d.dueDate # NullDate /\ d.dueDate < result.at
                        /\ d.status \notin {"completed", "cancelled"}
        IsAssigned(d) == d.assignedTo = result.opts.userId
        IsCreated(d) == d.createdBy = result.opts.userId
    IN  /\ (\/ result.op \in {"listByStatus", "listAssignedTo", "listCreatedBy", "listOverdue"}
            \/ (result.op = "list" /\ ~result.opts.includeDeleted))
              => /\ \A k \in 1..Len(result.items) :
                       /\ result.items[k].id \in active
                       /\ result.items[k].doc.isActive
                 /\ result.pagination.total <= Cardinality(active)
        /\ result.op \in {"stats", "myStats"}
              => /\ result.stats.total <= Cardinality(active)
                 /\ result.stats.pending <= n(IsPending)
                 /\ result.stats.inProgress <= n(IsInProgress)
                 /\ result.stats.completed <= n(IsCompleted)
                 /\ result.stats.cancelled <= n(IsCancelled)
                 /\ result.stats.overdue <= n(IsOverdue)
                 /\ result.stats.assigned <= n(IsAssigned)
                 /\ result.stats.created <= n(IsCreated)
        /\ result.op = "listAssignees"
              => \A k \in 1..Len(result.users) :
                    \E i \in active :
                        /\ st[i].assignedTo \in Admins
                        /\ AdminEmails[st[i].assignedTo] = result.users[k].email
        /\ (result.op = "list" /\ \E k \in 1..Len(result.items) : ~result.items[k].doc.isActive)
              => result.opts.includeDeleted

\* a list without filters returned the active item and not the soft-deleted
\* one
C4_Witness ==
    /\ result.op = "list" /\ result.err = ""
    /\ result.opts = NoQuery
    /\ Len(result.items) = 1
    /\ result.pagination.total = 1
    /\ \E i \in DOMAIN store : ~store[i].isActive

\* a list with includeDeleted returned a soft-deleted item
C4_WitnessIncludeDeleted ==
    /\ result.op = "list" /\ result.err = ""
    /\ result.opts.includeDeleted
    /\ \E k \in 1..Len(result.items) : ~result.items[k].doc.isActive

\* stats left out a soft-deleted overdue item, and listAssignees its assignee
C4_WitnessStats ==
    /\ result.op = "stats" /\ result.err = ""
    /\ result.stats.total = 1 /\ result.stats.overdue = 0
    /\ \E i \in DOMAIN store :
          ~store[i].isActive /\ store[i].dueDate # NullDate /\ store[i].dueDate < result.at

C4_WitnessAssignees ==
    /\ result.op = "listAssignees"
    /\ result.users = <<>>
    /\ \E i \in DOMAIN store : ~store[i].isActive /\ store[i].assignedTo # NoRef

\* C5: a create, update or bulkUpdate that fails leaves the collection of
\* work items exactly as it was.
C5_FailedWriteLeavesStore ==
    (result.op \in {"create", "update", "bulkUpdate"} /\ result.err # "")
        => (store = result.before /\ nextId = result.nextIdBefore)

\* a create was rejected for its due date while an item was stored
C5_Witness ==
    /\ result.op = "create"
    /\ result.err = "Due date cannot be in the past"
    /\ DOMAIN store # {}

C6_WitnessRestored ==
    /\ result.op = "restore" /\ result.err = ""
    /\ ~result.before[result.id].isActive
    /\ store[result.id].isActive
    /\ store[result.id].status = "completed"

\* C7: permanentlyDelete fails with "Work item not found" when no record has
\* the id and removes the record when it succeeds; from then on the record
\* never comes back, and getById, update, delete, restore and
\* permanentlyDelete of that id fail with a not-found error.
C7_PermanentDeleteIsFinal ==
    /\ result.op = "permanentlyDelete" =>
          IF result.id \notin DOMAIN result.before
          THEN result.err = "Work item not found" /\ store = result.before
          ELSE result.err = "" /\ Removed(store, nextId, result.id)
    /\ \A id \in Ids :
          Removed(result.before, result.nextIdBefore, id) =>
              /\ Removed(store, nextId, id)
              /\ (/\ result.id = id
                  /\ result.op \in {"getById", "update", "delete", "restore",
                                    "permanentlyDelete"})
                    => result.err \in NotFoundErrors

\* a removed id was asked to be restored, and another item is stored
C7_Witness ==
    /\ result.op = "restore"
    /\ result.err = "Deleted work item not found"
    /\ Removed(result.before, result.nextIdBefore, result.id)
    /\ DOMAIN store # {}

C9_BulkUpdateAppliesAllowList ==
    (result.op = "bulkUpdate" /\ result.err = "") =>
        LET p == result.req
            st == result.before
            target == {i \in DOMAIN st \cap result.ids.ids : st[i].isActive}
        IN  /\ DOMAIN store = DOMAIN st
            /\ \A i \in DOMAIN st \ target : store[i] = st[i]
            /\ \A i \in target :
                  /\ Has(p, "status") => store[i].status = p.status
                  /\ Has(p, "priority") => store[i].priority = p.priority
                  /\ Has(p, "assignedTo") =>
                        store[i].assignedTo = AdminFindOneByEmail(toLowerCase(p.assignedTo.s))
                  /\ Has(p, "tags") => store[i].tags = p.tags
                  /\ \A f \in {"title", "description", "dueDate", "isActive", "createdBy"} :
                        store[i][f] = st[i][f]
            /\ result.count <= Cardinality(target)

\* C10: bulkUpdate without ids, or with an empty list, fails with "No work item
\* IDs provided" whatever the body; with ids and a body that has no
\* allow-listed key it fails with "No valid update fields provided".
C10_BulkUpdateRejections ==
    result.op = "bulkUpdate" =>
        LET p == result.req
            ids == result.ids
        IN  /\ (~ids.given \/ ids.ids = {}) => result.err = "No work item IDs provided"
            /\ (ids.given /\ ids.ids # {}
                /\ p.keys \cap {"status", "priority", "assignedTo", "tags"} = {})
                  => result.err = "No valid update fields provided"

\* a body with only an unrecognized key was refused for a list of stored ids
C10_Witness ==
    /\ result.op = "bulkUpdate"
    /\ result.err = "No valid update fields provided"
    /\ result.req.keys = {"title"}
    /\ result.ids.ids \cap DOMAIN store # {}

\* an id list was missing while the body named an unknown assignee
C10_WitnessNoIds ==
    /\ result.op = "bulkUpdate"
    /\ result.err = "No work item IDs provided"
    /\ ~result.ids.given
    /\ Has(result.req, "assignedTo")

C12_UpdateRejectsPastDueDate ==
    (/\ result.op = "update"
     /\ result.id \in DOMAIN result.before
     /\ Has(result.req, "dueDate")
     /\ result.req.dueDate # InvalidDate
     /\ result.req.dueDate < result.at)
        => /\ result.err = "Due date cannot be in the past"
           /\ store = result.before

\* C13: a create with otherwise valid data fails with "Due date cannot be in
\* the past" and stores nothing when its dueDate is earlier than the current
\* time, and succeeds and stores that dueDate when it is the current time or
\* later.
C13_CreateChecksDueDate ==
    (/\ result.op = "create"
     /\ Has(result.req, "dueDate")
     /\ result.req.dueDate # InvalidDate
     /\ createError([result.req EXCEPT !.keys = @ \ {"dueDate"}]) = "")
        => IF result.req.dueDate < result.at
           THEN /\ result.err = "Due date cannot be in the past"
                /\ store = result.before
                /\ nextId = result.nextIdBefore
           ELSE /\ result.err = ""
                /\ DOMAIN store = DOMAIN result.before \cup {result.id}
                /\ result.id \notin DOMAIN result.before
                /\ store[result.id].dueDate = result.req.dueDate
                /\ result.items[1].doc.dueDate = result.req.dueDate

\* a create at a later time than 0 was accepted with a due date equal to
\* that time
C13_Witness ==
    /\ result.op = "create" /\ result.err = ""
    /\ result.at > 0
    /\ result.req.dueDate = result.at
    /\ store[result.id].dueDate = result.at

\* a create was refused for a due date one tick in the past
C13_WitnessPast ==
    /\ result.op = "create"
    /\ result.err = "Due date cannot be in the past"
    /\ result.req.dueDate = result.at - 1

\* the validation rules, in the order title, description, priority, status,
\* assignedTo shape, assignedTo existence, dueDate
RuleOrder ==
    <<"title", "description", "priority", "status", "shape", "existence", "dueDate">>

\* the order in which update and bulkUpdate check their rules
UpdateRuleOrder == <<"shape", "existence", "status", "priority">>

\* the rule an error message belongs to; "other" for any other message
RuleOf(err) ==
    CASE err = "Title must be at least 3 characters long" -> "title"
      [] err = "Description must be at least 10 characters long" -> "description"
      [] err \in {"Invalid priority. Must be one of: low, medium, high, urgent",
                  "Invalid priority"} -> "priority"
      [] err \in {"Invalid status. Must be one of: pending, in_progress, completed, cancelled",
                  "Invalid status"} -> "status"
      [] err \in {"assignedTo must be a string (email address)",
                  "assignedTo must be a valid email address"} -> "shape"
      [] err = "User with email does not exist" -> "existence"
      [] err \in {"Invalid due date format", "Due date cannot be in the past"} -> "dueDate"
      [] OTHER -> "other"

\* whether the body d of operation op, sent at time at, violates the rule
Violates(rule, op, d, at) ==
    CASE rule = "title" ->
            IF op = "create" THEN ~Truthy(d, "title") \/ Len(trim(d.title)) < TitleMinLength
            ELSE op = "update" /\ Has(d, "title") /\ Len(trim(d.title)) < TitleMinLength
      [] rule = "description" ->
            IF op = "create"
            THEN ~Truthy(d, "description") \/ Len(trim(d.description)) < DescriptionMinLength
            ELSE op = "update" /\ Has(d, "description")
                 /\ Len(trim(d.description)) < DescriptionMinLength
      [] rule = "priority" -> Truthy(d, "priority") /\ d.priority \notin validPriorities
      [] rule = "status" -> Truthy(d, "status") /\ d.status \notin validStatuses
      [] rule = "shape" ->
            Truthy(d, "assignedTo")
            /\ (d.assignedTo.t # "string" \/ ~emailRegexTest(d.assignedTo.s))
      [] rule = "existence" ->
            /\ Truthy(d, "assignedTo") /\ d.assignedTo.t = "string"
            /\ emailRegexTest(d.assignedTo.s)
            /\ AdminFindOneByEmail(toLowerCase(d.assignedTo.s)) = NoRef
      [] rule = "dueDate" ->
            op = "create" /\ Truthy(d, "dueDate")
            /\ (d.dueDate = InvalidDate \/ d.dueDate < at)

\* the request reached the validation of its body
Validated ==
    \/ result.op = "create"
    \/ result.op = "update" /\ result.id \in DOMAIN result.before
    \/ result.op = "bulkUpdate" /\ result.ids.given /\ result.ids.ids # {}

\* the error of the last operation is that of the first rule of order that
\* its body violates, when it violates one
FirstViolatedWins(order) ==
    \A k \in 1..Len(order) :
        (/\ Violates(order[k], result.op, result.req, result.at)
         /\ \A j \in 1..(k - 1) : ~Violates(order[j], result.op, result.req, result.at))
            => RuleOf(result.err) = order[k]

\* C14 as stated: in create, update and bulkUpdate no rule's error is
\* reported while a rule earlier in the order title, description, priority,
\* status, assignedTo shape, assignedTo existence, dueDate is violated.
C14_SpecOrderEverywhere ==
    Validated =>
        \A k \in 1..Len(RuleOrder) :
            RuleOf(result.err) = RuleOrder[k]
                => \A j \in 1..(k - 1) :
                      ~Violates(RuleOrder[j], result.op, result.req, result.at)

\* C14: create reports the error of the first violated rule in the order
\* title, description, priority, status, assignedTo shape, assignedTo
\* existence, dueDate; update and bulkUpdate report the error of the first
\* violated rule in the order assignedTo shape, assignedTo existence, status,
\* priority.
C14_FirstViolatedRuleWins ==
    Validated =>
        IF result.op = "create"
        THEN FirstViolatedWins(RuleOrder)
        ELSE FirstViolatedWins(UpdateRuleOrder)

\* an update with an invalid status and a malformed assignedTo was refused
\* for the assignedTo
C14_Witness ==
    /\ result.op = "update"
    /\ result.id \in DOMAIN result.before
    /\ Violates("status", "update", result.req, result.at)
    /\ Violates("shape", "update", result.req, result.at)
    /\ result.err = "assignedTo must be a valid email address"

\* a create with an invalid priority and a past due date was refused for the
\* priority
C14_WitnessCreate ==
    /\ result.op = "create"
    /\ Violates("priority", "create", result.req, result.at)
    /\ Violates("dueDate", "create", result.req, result.at)
    /\ result.req.dueDate # InvalidDate
    /\ result.err = "Invalid priority. Must be one of: low, medium, high, urgent"

InvalidStatusMsg == "Invalid status. Must be one of: pending, in_progress, completed, cancelled"
InvalidPriorityMsg == "Invalid priority. Must be one of: low, medium, high, urgent"

\* C15: in create, update and bulkUpdate a status outside the four statuses
\* is refused with the message that lists them and a priority outside the
\* four priorities with the message that lists those, listByStatus refuses a
\* status outside the four with the same message, and every stored item has
\* its status and its priority inside the enums.
C15_EnumsAreEnforced ==
    /\ \A i \in DOMAIN store :
          store[i].status \in validStatuses /\ store[i].priority \in validPriorities
    /\ (Validated /\ Truthy(result.req, "status") /\ result.req.status \notin validStatuses)
          => /\ result.err # ""
             /\ RuleOf(result.err) = "status" => result.err = InvalidStatusMsg
    /\ (Validated /\ Truthy(result.req, "priority")
        /\ result.req.priority \notin validPriorities)
          => /\ result.err # ""
             /\ RuleOf(result.err) = "priority" => result.err = InvalidPriorityMsg
    /\ (result.op = "listByStatus" /\ result.opts.one \notin validStatuses)
          => result.err = InvalidStatusMsg

\* the part of C15 about the stored values alone
C15_StoredEnums ==
    \A i \in DOMAIN store :
        store[i].status \in validStatuses /\ store[i].priority \in validPriorities

\* C16: in create, update and bulkUpdate a string assignedTo that does not
\* match the e-mail pattern is refused with "assignedTo must be a valid email
\* address"; one that matches and whose lower-cased form no directory
\* identity has is refused with "User with email {email} does not exist",
\* naming the address as it was sent; one that resolves is never refused for
\* the assignee and, when the operation succeeds, is stored as the reference
\* of that identity with the assignee type tag "Admin".  A refusal writes
\* nothing.
C16_AssignedToIsResolved ==
    LET p == result.req
        v == p.assignedTo
        who == AdminFindOneByEmail(toLowerCase(v.s))
        \* create checks title, description, priority and status first
        reached == result.op = "create"
                      => \A k \in 1..4 : ~Violates(RuleOrder[k], "create", p, result.at)
        written == IF result.op = "bulkUpdate"
                   THEN {i \in DOMAIN result.before \cap result.ids.ids :
                            result.before[i].isActive}
                   ELSE {result.id}
    IN  (Validated /\ Truthy(p, "assignedTo") /\ v.t = "string" /\ reached) =>
            IF ~emailRegexTest(v.s)
            THEN /\ result.err = "assignedTo must be a valid email address"
                 /\ store = result.before
            ELSE IF who = NoRef
            THEN /\ result.err = "User with email does not exist"
                 /\ result.detail = v.s
                 /\ store = result.before
            ELSE /\ RuleOf(result.err) \notin {"shape", "existence"}
                 /\ result.err = "" =>
                       \A i \in written :
                           /\ store[i].assignedTo = who
                           /\ store[i].assigneeModel = "Admin"

\* an update gave an item that had an assignee another one, named in upper
\* case
C16_Witness ==
    /\ result.op = "update" /\ result.err = ""
    /\ result.req.assignedTo = KnownEmail
    /\ result.before[result.id].assignedTo = "a2"
    /\ store[result.id].assignedTo = "a1"
    /\ store[result.id].assigneeModel = "Admin"

\* a bulkUpdate was refused for an address nobody has
C16_WitnessUnknown ==
    /\ result.op = "bulkUpdate"
    /\ result.err = "User with email does not exist"
    /\ result.detail = UnknownEmail.s
    /\ result.ids.ids \cap DOMAIN store # {}

\* the string is stored trimmed and its length is between lo and hi
WithinLength(v, lo, hi) == v = trim(v) /\ Len(v) >= lo /\ Len(v) <= hi

\* C17: every stored item has a trimmed title of 3 to 100 characters and a
\* trimmed description of 10 to 500 characters, and a create or update whose
\* title or description is shorter or longer after trimming fails and
\* writes nothing.
C17_LengthsAreEnforced ==
    /\ \A i \in DOMAIN store :
          /\ WithinLength(store[i].title, TitleMinLength, TitleMaxLength)
          /\ WithinLength(store[i].description, DescriptionMinLength, DescriptionMaxLength)
    /\ (/\ result.op \in {"create", "update"}
        /\ \/ /\ Has(result.req, "title")
              /\ ~WithinLength(trim(result.req.title), TitleMinLength, TitleMaxLength)
           \/ /\ Has(result.req, "description")
              /\ ~WithinLength(trim(result.req.description),
                               DescriptionMinLength, DescriptionMaxLength))
          => (result.err # "" /\ store = result.before)

\* an update was refused for a title of 101 characters while the stored item
\* has a title of 100 and a description of 500
C17_Witness ==
    /\ result.op = "update" /\ result.err # ""
    /\ Len(trim(result.req.title)) = TitleMaxLength + 1
    /\ result.id \in DOMAIN store
    /\ \E i, j \in DOMAIN store :
          /\ Len(store[i].title) = TitleMaxLength
          /\ Len(store[j].description) = DescriptionMaxLength

\* C18: a create that succeeds adds exactly one item and leaves the others
\* as they were; the new item is active, has the creator as createdBy with
\* the tag "Admin", the status of the body or pending, the priority of the
\* body or medium, the trimmed title and description, and no assignee when
\* the body names none; the returned item is the new one with its creator
\* populated and, when the body names no assignee, assignedTo null.
C18_CreateStoresOneItem ==
    (result.op = "create" /\ result.err = "") =>
        LET d == result.req
            creator == result.opts.userId
            st == result.before
            id == result.id
            new == store[id]
            shown == result.items[1]
        IN  /\ id \notin DOMAIN st
            /\ DOMAIN store = DOMAIN st \cup {id}
            /\ \A j \in DOMAIN st : store[j] = st[j]
            /\ new.isActive
            /\ new.createdBy = creator
            /\ new.creatorModel = "Admin"
            /\ new.status = IF Truthy(d, "status") THEN d.status ELSE "pending"
            /\ new.priority = IF Truthy(d, "priority") THEN d.priority ELSE "medium"
            /\ new.title = trim(d.title)
            /\ new.description = trim(d.description)
            /\ ~Truthy(d, "assignedTo")
                  => /\ new.assignedTo = NoRef
                     /\ shown.doc.assignedTo = NullUser
            /\ Len(result.items) = 1
            /\ shown.id = id
            /\ shown.doc.createdBy = [found |-> TRUE, email |-> AdminEmails[creator]]
            /\ \A f \in DocFields \ {"createdBy", "assignedTo"} : shown.doc[f] = new[f]

\* the second identity created an item with defaults next to a soft-deleted
\* item of the first
C18_Witness ==
    /\ result.op = "create" /\ result.err = ""
    /\ result.opts.userId = "a2"
    /\ result.req.keys = {"title", "description"}
    /\ store[result.id].status = "pending"
    /\ store[result.id].priority = "medium"
    /\ result.items[1].doc.assignedTo = NullUser
    /\ \E j \in DOMAIN result.before :
          ~store[j].isActive /\ store[j].createdBy = "a1"

\* C19: stats without filters succeeds and returns as total the number of
\* active items, as pending, inProgress, completed and cancelled the number
\* of active items of that status, and as overdue the number of active items
\* that are neither completed nor cancelled and whose due date is before the
\* current time.
C19_StatsCountActiveItems ==
    (result.op = "stats" /\ result.opts = NoQuery) =>
        LET st == result.before
            active == ActiveIn(st)
            WithStatus(v) == Cardinality({i \in active : st[i].status = v})
        IN  /\ result.err = ""
            /\ result.stats.total = Cardinality(active)
            /\ result.stats.pending = WithStatus("pending")
            /\ result.stats.inProgress = WithStatus("in_progress")
            /\ result.stats.completed = WithStatus("completed")
            /\ result.stats.cancelled = WithStatus("cancelled")
            /\ result.stats.overdue =
                  Cardinality({i \in active :
                      /\ st[i].status \notin {"completed", "cancelled"}
                      /\ st[i].dueDate # NullDate
                      /\ st[i].dueDate < result.at})

\* stats counted one overdue item next to a completed item whose due date
\* has passed too
C19_Witness ==
    /\ result.op = "stats" /\ result.opts = NoQuery
    /\ result.stats.total = 2
    /\ result.stats.overdue = 1
    /\ result.stats.completed = 1
    /\ \A i \in DOMAIN store : store[i].dueDate # NullDate /\ store[i].dueDate < result.at

\* a / b rounded to the nearest integer, a half going up, for a >= 0 and b > 0
RoundedQuotient(a, b) == (2 * a + b) \div (2 * b)

\* C20: myStats fails with "User ID is required" when no user is given;
\* otherwise it succeeds, completionRate is completed * 100 / total rounded
\* to the nearest integer and overdueRate is overdue * 100 / total rounded
\* to the nearest integer, over the active items the user created or is
\* assigned to; both are 0 when total is 0, and both are integers between 0
\* and 100.
C20_RatesAreRoundedPercentages ==
    result.op = "myStats" =>
        LET u == result.opts.userId
            st == result.before
            mine == {i \in ActiveIn(st) : st[i].createdBy = u \/ st[i].assignedTo = u}
            total == Cardinality(mine)
            completed == Cardinality({i \in mine : st[i].status = "completed"})
            overdue == Cardinality({i \in mine :
                          /\ st[i].status \notin {"completed", "cancelled"}
                          /\ st[i].dueDate # NullDate
                          /\ st[i].dueDate < result.at})
        IN  IF u = NoRef
            THEN result.err = "User ID is required"
            ELSE /\ result.err = ""
                 /\ result.stats.completionRate =
                       IF total = 0 THEN 0 ELSE RoundedQuotient(completed * 100, total)
                 /\ result.stats.overdueRate =
                       IF total = 0 THEN 0 ELSE RoundedQuotient(overdue * 100, total)
                 /\ result.stats.completionRate \in 0..100
                 /\ result.stats.overdueRate \in 0..100

\* the parts of C20 that do not depend on how a half is rounded
C20_RatesWithinRange ==
    result.op = "myStats" =>
        IF result.opts.userId = NoRef
        THEN result.err = "User ID is required"
        ELSE /\ result.err = ""
             /\ result.stats.completionRate \in 0..100
             /\ result.stats.overdueRate \in 0..100
             /\ result.stats.total = 0
                   => result.stats.completionRate = 0 /\ result.stats.overdueRate = 0

(***************************************************************************)
(* C21: getAllWorkItems uses page 1 and limit 10 when they are not given,  *)
(* returns at most limit items, and its pagination record carries the      *)
(* number of matching items as total, the page and limit it used, and      *)
(* pages = ceil(total / limit).                                            *)
(***************************************************************************)
\* the items the filters of a paging query select
Selected(q) ==
    {i \in DOMAIN store :
        /\ q.includeDeleted \/ store[i].isActive
        /\ q.status = {} \/ store[i].status \in q.status}

C21_PaginationIsConsistent ==
    (result.op = "list" /\ result.err = "") =>
        LET q == result.opts
            page == IF q.page = 0 THEN 1 ELSE q.page
            limit == IF q.limit = 0 THEN 10 ELSE q.limit
            total == Cardinality(Selected(q))
            pg == result.pagination
        IN  /\ Len(result.items) <= limit
            /\ \A k \in DOMAIN result.items : result.items[k].id \in Selected(q)
            /\ pg.total = total
            /\ pg.page = page
            /\ pg.limit = limit
            /\ pg.pages * limit >= total
            /\ (pg.pages - 1) * limit < total \/ (total = 0 /\ pg.pages = 0)

\* a listing without options over more than ten items: ten of them are
\* returned and a second page is announced
C21_Witness ==
    /\ result.op = "list" /\ result.err = ""
    /\ result.opts.page = 0 /\ result.opts.limit = 0
    /\ result.pagination.total > 10
    /\ Len(result.items) = 10
    /\ result.pagination.pages = 2

\* a last page that is not full
C21_WitnessLastPage ==
    /\ result.op = "list" /\ result.err = ""
    /\ result.opts.page = 3 /\ result.opts.limit = 5
    /\ result.pagination.total = 12
    /\ Len(result.items) = 2
    /\ result.pagination.pages = 3

(***************************************************************************)
(* C22: getOverdueWorkItems returns exactly the items that are active,     *)
(* have a status other than completed and cancelled, and have a dueDate    *)
(* earlier than now, ordered by dueDate descending; items without a        *)
(* dueDate are never returned.                                             *)
(***************************************************************************)
\* the items that are overdue at the time of the last operation
OverdueAt ==
    {i \in DOMAIN store :
        /\ store[i].isActive
        /\ store[i].status \notin {"completed", "cancelled"}
        /\ store[i].dueDate # NullDate
        /\ store[i].dueDate < result.at}

C22_OverdueListing ==
    result.op = "listOverdue" =>
        /\ result.err = ""
        /\ {result.items[k].id : k \in DOMAIN result.items} = OverdueAt
        /\ Len(result.items) = Cardinality(OverdueAt)
        /\ \A k \in DOMAIN result.items :
              result.items[k] = formatWorkItem(result.items[k].id, store[result.items[k].id])
        /\ \A a, b \in DOMAIN result.items :
              a < b => result.items[a].doc.dueDate >= result.items[b].doc.dueDate

\* two overdue items with different due dates are listed, the later first
C22_Witness ==
    /\ result.op = "listOverdue"
    /\ Len(result.items) = 2
    /\ result.items[1].doc.dueDate > result.items[2].doc.dueDate

\* an active item without a due date, a completed one and a soft-deleted one
\* whose due dates have passed are left out of a listing that is not empty
C22_WitnessLeftOut ==
    /\ result.op = "listOverdue"
    /\ Len(result.items) = 1
    /\ \E i \in DOMAIN store \ OverdueAt :
          \/ store[i].isActive /\ store[i].dueDate = NullDate
          \/ store[i].status = "completed" /\ store[i].dueDate # NullDate
                /\ store[i].dueDate < result.at
          \/ ~store[i].isActive /\ store[i].status = "pending"
                /\ store[i].dueDate # NullDate /\ store[i].dueDate < result.at

(***************************************************************************)
(* C23: at the HTTP boundary getById, update, delete, permanentlyDelete    *)
(* and restore on an absent id are answered with 404, and every other      *)
(* error of the service with 400 and the error's message, or the           *)
(* operation's fallback message when the error has none.                   *)
(***************************************************************************)
\* the last operation named an id that had no record, and the database
\* answered
NotFoundCondition ==
    /\ result.threw
    /\ result.op \in {"getById", "update", "delete", "permanentlyDelete", "restore"}
    /\ result.id \notin DOMAIN result.before
    /\ ~result.rejected

C23_ErrorsBecomeResponses ==
    LET response == controllerResponse(result)
    IN  result.op # "none" =>
            /\ NotFoundCondition => response.status = 404
            /\ (result.threw /\ ~NotFoundCondition) =>
                  /\ response.status = 400
                  /\ result.err # "" =>
                        response.message = result.err /\ response.detail = result.detail
                  /\ result.err = "" =>
                        response.message = fallbackMessage[result.op]
            /\ response.status = 404 => NotFoundCondition

\* a restore of an id whose record was removed is answered with 404
C23_Witness ==
    /\ result.op = "restore"
    /\ NotFoundCondition
    /\ Removed(result.before, result.nextIdBefore, result.id)
    /\ controllerResponse(result).status = 404

\* an error without a message is answered with the fallback message
C23_WitnessFallback ==
    /\ result.op = "update"
    /\ result.threw /\ result.err = ""
    /\ controllerResponse(result) =
          errorResponse("Failed to update work item", <<>>, 400)

\* a rejected update of a stored item is answered with 400 and its message
C23_WitnessRejected ==
    /\ result.op = "update"
    /\ result.id \in DOMAIN result.before
    /\ result.err = "User with email does not exist"
    /\ controllerResponse(result).status = 400
    /\ controllerResponse(result).detail = UnknownEmail.s

(***************************************************************************)
(* C24: getAssigneeList never propagates an error: it returns an empty     *)
(* list when one of its queries fails, and otherwise one entry per         *)
(* distinct identity assigned to at least one active item, none twice.     *)
(***************************************************************************)
\* the e-mails of the identities in S that an active item is assigned to
AssignedEmails(S) ==
    {AdminEmails[a] : a \in {b \in S : \E i \in DOMAIN store :
                                          store[i].isActive /\ store[i].assignedTo = b}}

\* the list has one entry for each identity of S that is assigned
ListsAssigneesAmong(S) ==
    result.op = "listAssignees" =>
        /\ ~result.threw /\ result.err = ""
        /\ result.rejected => result.users = <<>>
        /\ ~result.rejected =>
              /\ {result.users[k].email : k \in DOMAIN result.users} = AssignedEmails(S)
              /\ Len(result.users) = Cardinality(AssignedEmails(S))

\* the claim as stated: every assigned identity is listed
C24_EveryAssigneeListed == ListsAssigneesAmong(Admins)

\* every assigned identity that is active in the directory is listed
C24_ActiveAssigneesListed == ListsAssigneesAmong(ActiveAdmins)

\* two active items with different active assignees and a list of both
C24_Witness ==
    /\ result.op = "listAssignees"
    /\ ~result.rejected
    /\ Len(result.users) = 2
    /\ Cardinality({i \in DOMAIN store : store[i].isActive}) = 2

\* a query is rejected while items are assigned: the list is empty
C24_WitnessRejected ==
    /\ result.op = "listAssignees"
    /\ result.rejected
    /\ result.users = <<>>
    /\ AssignedEmails(ActiveAdmins) # {}

(***************************************************************************)
(* C25: soft delete is reversible: a delete of an active item followed by  *)
(* a restore of the same item succeeds and leaves the item with exactly    *)
(* the field values it had before the delete.                              *)
(***************************************************************************)
\* the last operation was a delete of the item id, which was active
DeletedActive(id) ==
    /\ result.op = "delete" /\ result.err = "" /\ result.id = id
    /\ id \in DOMAIN result.before
    /\ result.before[id].isActive

C26_ConcurrentUpdatesKeepStamp ==
    (\A c \in Callers : calls[c].pc = "done") =>
        \A i \in DOMAIN store :
            (store[i].completedAt # NullDate) <=> (store[i].status = "completed")

(***************************************************************************)
(* C27: every result of getWorkItemStats satisfies total = pending +       *)
(* inProgress + completed + cancelled and overdue <= pending + inProgress, *)
(* also when writes are applied between its count queries.                 *)
(***************************************************************************)
C27_StatsAreConsistent ==
    (result.op = "stats" /\ result.err = "") =>
        /\ result.stats.total = result.stats.pending + result.stats.inProgress
                                  + result.stats.completed + result.stats.cancelled
        /\ result.stats.overdue <= result.stats.pending + result.stats.inProgress

(***************************************************************************)
(* C28: each id goes from absent to active to soft-deleted and back, and   *)
(* to removed: only create makes an id active, only delete turns active    *)
(* into soft-deleted, only restore turns soft-deleted into active, only    *)
(* permanentlyDelete removes a record, removed is terminal, and update,    *)
(* bulkUpdate and the reads never change isActive or the existence of an   *)
(* item.                                                                   *)
(***************************************************************************)
\* where the id stands in the collection st, of which next is the next id
Stage(st, next, id) ==
    IF id \in DOMAIN st THEN (IF st[id].isActive THEN "active" ELSE "soft-deleted")
    ELSE IF id < next THEN "removed"
    ELSE "absent"

C28_Lifecycle ==
    \A id \in Ids :
        LET was == Stage(result.before, result.nextIdBefore, id)
            is == Stage(store, nextId, id)
            ok == result.err = "" /\ ~result.threw
        IN  /\ result.op = "none" => is = "absent"
            /\ was # is =>
                  \/ was = "absent" /\ is = "active"
                        /\ result.op = "create" /\ ok /\ result.id = id
                  \/ was = "active" /\ is = "soft-deleted"
                        /\ result.op = "delete" /\ ok /\ result.id = id
                  \/ was = "soft-deleted" /\ is = "active"
                        /\ result.op = "restore" /\ ok /\ result.id = id
                  \/ was \in {"active", "soft-deleted"} /\ is = "removed"
                        /\ result.op = "permanentlyDelete" /\ ok /\ result.id = id

\* a soft-deleted item is removed for good while another item is active
C28_Witness ==
    /\ result.op = "permanentlyDelete" /\ result.err = ""
    /\ Stage(result.before, result.nextIdBefore, result.id) = "soft-deleted"
    /\ Stage(store, nextId, result.id) = "removed"
    /\ \E i \in DOMAIN store : store[i].isActive

\* a bulk update whose body carries isActive: false went through and left
\* the item it matched active
C28_WitnessBulkUpdate ==
    /\ result.op = "bulkUpdate" /\ result.err = ""
    /\ "isActive" \in result.req.keys /\ ~result.req.isActive
    /\ \E i \in result.ids.ids \cap DOMAIN store :
          store[i].isActive /\ store[i].status = "in_progress"
                /\ result.before[i].status # "in_progress"

\* an id is given out after an earlier one was removed
C28_WitnessRemovedStays ==
    /\ result.op = "create" /\ result.err = ""
    /\ \E i \in Ids : Stage(result.before, result.nextIdBefore, i) = "removed"
                          /\ Stage(store, nextId, i) = "removed"

C29_WitnessRemoved ==
    /\ result.op = "delete" /\ result.err = "Work item not found"
    /\ Removed(result.before, result.nextIdBefore, result.id)

(***************************************************************************)
(* C30: sendEmail called with retries = n >= 1 always terminates after at  *)
(* most n attempts: it returns after the first successful attempt without  *)
(* making another, waits between failed attempts only when another attempt *)
(* remains, and when all n attempts fail it throws 'Email delivery         *)
(* failed: ' followed by the message of the last error.                    *)
(***************************************************************************)
\* what holds of a call of sendEmail at every moment
SendEmailSafe ==
    mail.pc # "idle" =>
        /\ mail.attempts <= mail.retries
        /\ mail.pc = "attempt" => mail.attempts = mail.attempt - 1 /\ mail.waits = mail.attempts
        /\ mail.pc = "wait" => mail.attempts < mail.retries /\ mail.waits = mail.attempts - 1
        /\ mail.pc = "returned" =>
              /\ mail.thrown = <<>>
              /\ mail.waits = mail.attempts - 1
        /\ mail.pc = "thrown" =>
              /\ mail.attempts = mail.retries
              /\ mail.waits = mail.retries - 1
              /\ mail.thrown = <<"Email delivery failed: ", mail.lastError>>
              /\ mail.lastError # ""

C30_SendEmailTerminates ==
    /\ []SendEmailSafe
    /\ [][mail.pc \in {"returned", "thrown"} => mail'.pc = "attempt" /\ mail'.attempts = 0]_vars
    /\ (mail.pc \in {"attempt", "wait"}) ~> (mail.pc \in {"returned", "thrown"})

\* every attempt of a call with several retries has failed and it has thrown
C30_Witness ==
    /\ mail.pc = "thrown"
    /\ mail.retries = 3 /\ mail.attempts = 3 /\ mail.waits = 2
    /\ mail.given /\ mail.configured

\* a call has returned after a failed and a successful attempt
C30_WitnessReturned ==
    /\ mail.pc = "returned"
    /\ mail.attempts = 2 /\ mail.waits = 1 /\ mail.retries = 3
    /\ mail.lastError # ""

==============================================================================
